---- MODULE Spec2Model ----
(***************************************************************************)
(* Minimap champion localisation of lol_coach:                             *)
(*   vision/robust_champion_detector.py   detect_champion_positions,       *)
(*                                        compute_circle_overlap,          *)
(*                                        classify_overlapping_circles     *)
(*   vision/map_semantics/minimap_coordinate_mapper.py                     *)
(*   vision/map_semantics/minimap_description.py                           *)
(*                                                                         *)
(* Real numbers are carried as integers: ratios and angles in units of     *)
(* 1/FP (fixed point), coordinates in units of 1/CoordScale pixel.         *)
(***************************************************************************)
EXTENDS Integers, Sequences, FiniteSets, TLC

\* ------------------------------------------------------------------------
\* Bounds of the model
\* ------------------------------------------------------------------------
MaxCoord == 6
MaxRadius == 3

\* ------------------------------------------------------------------------
\* Arithmetic helpers
\* ------------------------------------------------------------------------
\* units per 1 of a ratio, a cosine or a radian
FP == 100 * 100

Abs(a) == IF a < 0 THEN -a ELSE a

Min(a, b) == IF a < b THEN a ELSE b

Max(a, b) == IF a > b THEN a ELSE b

RECURSIVE SqrtSearch(_, _, _)
SqrtSearch(n, lo, hi) ==
    IF lo >= hi THEN lo
    ELSE LET mid == (lo + hi + 1) \div 2
         IN  IF mid * mid <= n THEN SqrtSearch(n, mid, hi)
             ELSE SqrtSearch(n, lo, mid - 1)

\* floor(sqrt(n)), n >= 0
ISqrt(n) == SqrtSearch(n, 0, Min(n, 46340))

\* np.arccos on a cosine given in units of 1/FP, result in units of 1/FP rad.
\* Polynomial of Abramowitz-Stegun 4.4.45 (absolute error below 1e-4).
PiFP == 31416

ArccosPos(c) ==
    LET p3 == -187
        p2 == 743 + (p3 * c) \div FP
        p1 == -2121 + (p2 * c) \div FP
        p0 == 15707 + (p1 * c) \div FP
    IN  (ISqrt((FP - c) * FP) * p0) \div FP

Arccos(c) == IF c >= 0 THEN ArccosPos(Min(c, FP)) ELSE PiFP - ArccosPos(Min(-c, FP))

\* |n| / (2 * r * sqrt(d2)) in units of 1/FP, with the sign of n
CosineFP(n, r, d2) ==
    LET q == ((n * n) * FP) \div (4 * r * r * d2)
        a == ISqrt(q * FP)
    IN  IF n >= 0 THEN a ELSE -a

\* ------------------------------------------------------------------------
\* compute_circle_overlap: intersection area over union area, in 1/FP
\* ------------------------------------------------------------------------
SqDistance(c1, c2) ==
    (c2[1] - c1[1]) * (c2[1] - c1[1]) + (c2[2] - c1[2]) * (c2[2] - c1[2])

PartialOverlap(r1, r2, d2) ==
    LET term1 == r1 * r1 * Arccos(CosineFP(d2 + r1 * r1 - r2 * r2, r1, d2))
        term2 == r2 * r2 * Arccos(CosineFP(d2 + r2 * r2 - r1 * r1, r2, d2))
        lens  == ((r1 + r2) * (r1 + r2) - d2) * (d2 - (r1 - r2) * (r1 - r2))
        term3 == ISqrt(lens * FP) * 50
        intersection_area == term1 + term2 - term3
        union_area == PiFP * (r1 * r1 + r2 * r2) - intersection_area
    IN  (intersection_area * 100) \div (union_area \div 100)

\* a first test against the difference of the radii, not their sum
compute_circle_overlap_DiffTest(c1, c2) ==
    LET r1 == c1[3]
        r2 == c2[3]
        d2 == SqDistance(c1, c2)
    IN  IF d2 >= (r1 - r2) * (r1 - r2) THEN 0
        ELSE (Min(r1, r2) * Min(r1, r2) * FP) \div (Max(r1, r2) * Max(r1, r2))

\* intersection area / union area of the circles c1, c2, in 1/FP; the code
\* converts x, y, r with map(float, ...) first, so np.uint16 inputs do not wrap
compute_circle_overlap(c1, c2) ==
    LET r1 == c1[3]
        r2 == c2[3]
        d2 == SqDistance(c1, c2)
    IN  IF d2 >= (r1 + r2) * (r1 + r2) THEN 0
        ELSE IF d2 <= (r1 - r2) * (r1 - r2)
             THEN (Min(r1, r2) * Min(r1, r2) * FP) \div (Max(r1, r2) * Max(r1, r2))
             ELSE PartialOverlap(r1, r2, d2)

VARIABLES circle1, circle2, overlap

ovars == <<circle1, circle2, overlap>>

\* the radii the candidates carry are at least 1 (max(r - HALO_SIZE, 1))
Circles == (0..MaxCoord) \X (0..1) \X (1..MaxRadius)

OverlapInit ==
    /\ circle1 \in Circles
    /\ circle2 \in Circles
    /\ overlap = -1


\* ------------------------------------------------------------------------
\* MinimapCoordinateMapper: coordinates are carried in 1/CoordScale pixel
\* ------------------------------------------------------------------------
CoordScale == 64 * 64

\* a / b rounded to the nearest integer (a >= 0, b > 0)
RoundDiv(a, b) == IF 2 * (a % b) >= b THEN a \div b + 1 ELSE a \div b

reference_size == <<512, 512>>

normalize_coordinates(x, y, minimap_size) ==
    LET width  == minimap_size[1]
        height == minimap_size[2]
    IN  <<RoundDiv(x * reference_size[1], width),
          RoundDiv(y * reference_size[2], height)>>

\* a homography with the two scale factors exchanged
compute_homography_Swapped(real_minimap_size) ==
    LET width  == real_minimap_size[1]
        height == real_minimap_size[2]
    IN  <<<<height, 0, 0>>, <<0, width, 0>>, <<0, 0, 512>>>>

\* The homography through the nine reference points (centre, edge centres,
\* corners of the 512 frame) and their images in the real minimap, in
\* homogeneous form: the points are an exact axis scaling of each other.
compute_homography(real_minimap_size) ==
    LET width  == real_minimap_size[1]
        height == real_minimap_size[2]
    IN  <<<<width, 0, 0>>, <<0, height, 0>>, <<0, 0, 512>>>>

\* cv2.perspectiveTransform of one point (the last row of H is (0, 0, h33))
perspectiveTransform(x, y, H) ==
    <<RoundDiv(H[1][1] * x + H[1][2] * y + H[1][3] * CoordScale, H[3][3]),
      RoundDiv(H[2][1] * x + H[2][2] * y + H[2][3] * CoordScale, H[3][3])>>

denormalize_coordinates(x, y, minimap_size) ==
    perspectiveTransform(x, y, compute_homography(minimap_size))

VARIABLES map_point, map_size, map_from, map_result

mvars == <<map_point, map_size, map_from, map_result>>

MapGrid == 5

\* sample coordinates over the 512 frame, in 1/CoordScale pixel
MapCoords == {(i * 512 * CoordScale) \div MapGrid : i \in 0..MapGrid}

\* (width, height) of the real minimap
MapSizes == {<<64, 64>>, <<128, 96>>, <<300, 200>>, <<640, 480>>}

MapperInit ==
    /\ map_point \in MapCoords \X MapCoords
    /\ map_size \in MapSizes
    /\ map_from = "none"
    /\ map_result = <<0, 0>>

\* ------------------------------------------------------------------------
\* minimap_description: labelled regions over the 512 frame
\* ------------------------------------------------------------------------
\* parse_annotations: a sample of the annotation file, axis-parallel
\* polygons <<x0, y0, x1, y1>>, in file order
regions ==
    << [label |-> "top-side river brush",          polygon |-> <<100, 60, 220, 180>>],
       [label |-> "top-lane alcove brush",         polygon |-> <<20, 20, 140, 100>>],
       [label |-> "Mid-lane top-side river brush", polygon |-> <<200, 200, 260, 260>>],
       [label |-> "bot-side river brush",          polygon |-> <<300, 300, 400, 400>>] >>

\* Python's order of the label strings (upper case sorts before lower case)
LabelOrder ==
    << "Mid-lane top-side river brush", "bot-side river brush",
       "top-lane alcove brush", "top-side river brush" >>

LabelRank(l) == CHOOSE k \in 1..Len(LabelOrder) : LabelOrder[k] = l

\* a test that takes the border of the polygon as inside
Within_Closed(x, y, poly) ==
    /\ poly[1] * CoordScale <= x
    /\ x <= poly[3] * CoordScale
    /\ poly[2] * CoordScale <= y
    /\ y <= poly[4] * CoordScale

\* Point.within(polygon): strictly inside
Within(x, y, poly) ==
    /\ poly[1] * CoordScale < x
    /\ x < poly[3] * CoordScale
    /\ poly[2] * CoordScale < y
    /\ y < poly[4] * CoordScale

\* Point.distance(polygon), squared, in 1/8 pixel
PolyDistance2(x, y, poly) ==
    LET px == x \div (CoordScale \div 8)
        py == y \div (CoordScale \div 8)
        ex == Max(0, Max(poly[1] * 8 - px, px - poly[3] * 8))
        ey == Max(0, Max(poly[2] * 8 - py, py - poly[4] * 8))
    IN  ex * ex + ey * ey

\* a sort that puts the farthest polygon first
SortsBefore_Farthest(a, b) ==
    \/ a[1] > b[1]
    \/ a[1] = b[1] /\ LabelRank(a[2]) < LabelRank(b[2])

\* entry a of the (distance, label) list sorts before entry b in distances.sort()
SortsBefore(a, b) ==
    \/ a[1] < b[1]
    \/ a[1] = b[1] /\ LabelRank(a[2]) < LabelRank(b[2])

RECURSIVE InsertSorted(_, _)
InsertSorted(sorted, e) ==
    IF sorted = <<>> THEN <<e>>
    ELSE IF ~SortsBefore(Head(sorted), e) THEN <<e>> \o sorted
    ELSE <<Head(sorted)>> \o InsertSorted(Tail(sorted), e)

RECURSIVE SortDistances(_)
SortDistances(distances) ==
    IF distances = <<>> THEN <<>>
    ELSE InsertSorted(SortDistances(Tail(distances)), Head(distances))

\* [label for _, label in distances[:n]]
RECURSIVE FirstLabels(_, _)
FirstLabels(distances, n) ==
    IF n = 0 \/ distances = <<>> THEN <<>>
    ELSE <<Head(distances)[2]>> \o FirstLabels(Tail(distances), n - 1)

\* a list of the labels of all regions, not cut to n entries
find_closest_regions_All(x, y, regs, n) ==
    FirstLabels(SortDistances([i \in 1..Len(regs) |->
                    <<PolyDistance2(x, y, regs[i].polygon), regs[i].label>>]), Len(regs))

find_closest_regions(x, y, regs, n) ==
    FirstLabels(SortDistances([i \in 1..Len(regs) |->
                    <<PolyDistance2(x, y, regs[i].polygon), regs[i].label>>]), n)

SelectLabels(x, y, regs) ==
    LET F[k \in 0..Len(regs)] ==
            IF k = 0 THEN <<>>
            ELSE IF Within(x, y, regs[k].polygon)
                 THEN Append(F[k - 1], regs[k].label)
                 ELSE F[k - 1]
    IN  F[Len(regs)]

\* closest_regions[-1] of an empty list
IndexError == [kind |-> "IndexError", labels |-> <<>>]

\* the description string, as its wording and the labels it joins
get_location_description(x, y, regs, n_closest) ==
    LET containing_regions == SelectLabels(x, y, regs)
        closest_regions == find_closest_regions(x, y, regs, n_closest)
    IN  IF containing_regions # <<>>
        THEN [kind |-> "inside", labels |-> containing_regions]
        ELSE IF Len(closest_regions) = 1
             THEN [kind |-> "near", labels |-> closest_regions]
             ELSE IF closest_regions = <<>>
                  THEN IndexError
                  ELSE [kind |-> "between", labels |-> closest_regions]

describe_location(x, y, minimap_size) ==
    LET n == normalize_coordinates(x, y, minimap_size)
    IN  get_location_description(n[1], n[2], regions, 3)

NotVisible == [kind |-> "Not visible", labels |-> <<>>]

\* ', '.join(labels), word by word
RECURSIVE JoinComma(_)
JoinComma(labels) ==
    IF labels = <<>> THEN <<>>
    ELSE IF Len(labels) = 1 THEN labels
    ELSE <<Head(labels), ",">> \o JoinComma(Tail(labels))

\* the f-strings of get_location_description, word by word
description_text(d) ==
    IF d.labels = <<>> THEN <<d.kind>>
    ELSE IF Len(d.labels) = 1 THEN <<d.kind, d.labels[1]>>
    ELSE <<d.kind>> \o JoinComma(SubSeq(d.labels, 1, Len(d.labels) - 1))
                    \o <<"and", d.labels[Len(d.labels)]>>

\* ------------------------------------------------------------------------
\* One call of get_location_description(x, y, regions, n_closest)
VARIABLES desc_point, desc_regions, desc_n, description

descvars == <<desc_point, desc_regions, desc_n, description>>

MaxRegions == 4
MaxClosest == 3

\* polygons a region list is made of; two polygons carry the same label
RegionPool ==
    regions \o << [label |-> "bot-side river brush", polygon |-> <<60, 300, 100, 400>>] >>

\* coordinates of the query points in the 512 frame: inside, on the border of
\* and outside the polygons
DescCoords == {60, 80, 100, 120, 230, 350}

\* the region lists: every ordered selection of at most MaxRegions polygons
RegionLists ==
    LET picks(n) == {f \in [1..n -> 1..Len(RegionPool)] :
                        \A i, j \in 1..n : i # j => f[i] # f[j]}
    IN  UNION {{[i \in 1..n |-> RegionPool[f[i]]] : f \in picks(n)} : n \in 0..MaxRegions}

NoDescription == [called |-> FALSE, result |-> NotVisible, text |-> <<>>]

DescribeInit ==
    /\ desc_point \in {<<x * CoordScale, y * CoordScale>> : x \in DescCoords, y \in DescCoords}
    /\ desc_regions \in RegionLists
    /\ desc_n \in 0..MaxClosest
    /\ description = NoDescription

DescribeIdle ==
    /\ desc_point = <<0, 0>>
    /\ desc_regions = <<>>
    /\ desc_n = 0
    /\ description = NoDescription

\* ------------------------------------------------------------------------
\* detect_champion_positions
\* ------------------------------------------------------------------------
HALO_SIZE == 3

\* scores are carried in 1/100
ScoreInit == 100

OverlapSignificant == 1500

OverlapNearTotal == 8000

Uint16 == 65536

\* np.uint16 scalar minus / plus a Python int: int64 under value-based
\* promotion (NumPy 1), uint16 with wrap-around under NEP 50 (NumPy 2)
SubU16(a, b, wraps) == IF wraps THEN (a - b) % Uint16 ELSE a - b

AddU16(a, b, wraps) == IF wraps THEN (a + b) % Uint16 ELSE a + b

get_minimap_icon_size(minimap_shape) ==
    LET icon_size == Max(12, (Min(minimap_shape[1], minimap_shape[2]) * 8) \div 100)
    IN  <<(icon_size \div 2) * 2, (icon_size \div 2) * 2>>

\* sorted(circles, key=radius, reverse=True): stable insertion by radius
RECURSIVE InsertByRadius(_, _)
InsertByRadius(sorted, c) ==
    IF sorted = <<>> THEN <<c>>
    ELSE IF Head(sorted)[3] >= c[3]
         THEN <<Head(sorted)>> \o InsertByRadius(Tail(sorted), c)
         ELSE <<c>> \o sorted

RECURSIVE SortByRadius(_)
SortByRadius(circles) ==
    IF circles = <<>> THEN <<>>
    ELSE InsertByRadius(SortByRadius(SubSeq(circles, 1, Len(circles) - 1)),
                        circles[Len(circles)])

\* compute_hough_candidates, from the rounded circles HoughCircles found
compute_hough_candidates(circles, wraps) ==
    LET sorted == SortByRadius(circles)
    IN  [i \in 1..Len(sorted) |->
            <<sorted[i][1], sorted[i][2],
              Max(SubU16(sorted[i][3], HALO_SIZE, wraps), 1), ScoreInit>>]

\* a rule that demotes the smaller circle of a partly overlapping pair
DemotedBy_SmallerRadius(candidates, i, j, k) ==
    LET overlap_ratio == compute_circle_overlap(candidates[i], candidates[j])
    IN  /\ overlap_ratio > OverlapSignificant
        /\ IF overlap_ratio > OverlapNearTotal
           THEN IF candidates[i][4] < candidates[j][4] THEN k = i ELSE k = j
           ELSE IF candidates[i][3] < candidates[j][3] THEN k = i ELSE k = j

\* a rule that demotes a candidate only in a nearly complete overlap
DemotedBy_NearTotalOnly(candidates, i, j, k) ==
    LET overlap_ratio == compute_circle_overlap(candidates[i], candidates[j])
    IN  /\ overlap_ratio > OverlapNearTotal
        /\ IF candidates[i][4] < candidates[j][4] THEN k = i ELSE k = j

\* candidate k loses its foreground flag to some pair (i, j), i < j
DemotedBy(candidates, i, j, k) ==
    LET overlap_ratio == compute_circle_overlap(candidates[i], candidates[j])
    IN  /\ overlap_ratio > OverlapSignificant
        /\ IF overlap_ratio > OverlapNearTotal
           THEN IF candidates[i][4] < candidates[j][4] THEN k = i ELSE k = j
           ELSE IF candidates[i][3] > candidates[j][3] THEN k = i ELSE k = j

classify_overlapping_circles(candidates) ==
    [k \in 1..Len(candidates) |->
        <<candidates[k][1], candidates[k][2], candidates[k][3], candidates[k][4],
          ~(\E i \in 1..Len(candidates) : \E j \in (i + 1)..Len(candidates) :
                DemotedBy(candidates, i, j, k))>>]

\* (w, h) of the extraction window of a 16 pixel icon with pad 4
MaskSize == <<20, 20>>

\* cv2.circle(mask, (cx, cy), r, 255, -1): the filled disk, clipped to the
\* mask; a centre far outside the mask leaves no pixel
Disk(cx, cy, r, size) ==
    IF cx > 4 * size[1] + 4 * r \/ cy > 4 * size[2] + 4 * r THEN {}
    ELSE {p \in (0..(size[1] - 1)) \X (0..(size[2] - 1)) :
            (p[1] - cx) * (p[1] - cx) + (p[2] - cy) * (p[2] - cy) <= r * r}

\* np.uint16 scalar ** 2: the int64 square under value-based promotion (cut
\* at 2^16, above every squared radius sum), the wrapped square under NEP 50
SquareU16(d, wraps) ==
    IF wraps
    THEN ((d % 256) * (d % 256) + 512 * (d \div 256) * (d % 256)) % Uint16
    ELSE IF d >= 256 THEN Uint16 ELSE d * d

\* distance < r + other_r, on the squares
CirclesTouch(current, other, wraps) ==
    LET dx == SubU16(other[1], current[1], TRUE)
        dy == SubU16(other[2], current[2], TRUE)
        d2 == IF wraps THEN AddU16(SquareU16(dx, wraps), SquareU16(dy, wraps), TRUE)
              ELSE SquareU16(dx, wraps) + SquareU16(dy, wraps)
    IN  d2 < (current[3] + other[3]) * (current[3] + other[3])

\* the circle subtracted for an overlapping circle: centre (rel_x, rel_y),
\* radius other_r + HALO_SIZE + 2
Subtracted(current, other, size, wraps) ==
    LET rel_x == AddU16(SubU16(other[1], current[1], TRUE), size[1] \div 2, wraps)
        rel_y == AddU16(SubU16(other[2], current[2], TRUE), size[2] \div 2, wraps)
    IN  Disk(rel_x, rel_y, other[3] + HALO_SIZE + 2, size)

\* the circles whose footprint is taken out of the mask of a background circle
Occluders(current, all_circles, wraps) ==
    {m \in 1..Len(all_circles) :
        /\ all_circles[m] # current
        /\ CirclesTouch(current, all_circles[m], wraps)}

create_occlusion_mask(current_circle, all_circles, foreground, mask_size, wraps) ==
    LET full == Disk(mask_size[1] \div 2, mask_size[2] \div 2, current_circle[3], mask_size)
    IN  IF foreground THEN full
        ELSE full \ UNION {Subtracted(current_circle, all_circles[m], mask_size, wraps) :
                             m \in Occluders(current_circle, all_circles, wraps)}

\* dictionaries
EmptyDict == [c \in {} |-> NotVisible]

DictSet(d, k, v) == [c \in (DOMAIN d) \cup {k} |-> IF c = k THEN v ELSE d[c]]

\* the extraction window of a candidate: <<x, y, w, h>>
Window(cand, icon_size, wraps) ==
    LET pad    == Max(4, icon_size[1] \div 6)
        half_w == icon_size[1] \div 2 + pad \div 2
        half_h == icon_size[2] \div 2 + pad \div 2
    IN  <<SubU16(cand[1], half_w, wraps), SubU16(cand[2], half_h, wraps),
          icon_size[1] + pad, icon_size[2] + pad>>

\* the test that skips a candidate whose window leaves the image
OutOfBounds(cand, icon_size, shape, wraps) ==
    LET win == Window(cand, icon_size, wraps)
    IN  \/ win[1] < 0
        \/ win[2] < 0
        \/ AddU16(win[1], win[3], wraps) >= shape[2]
        \/ AddU16(win[2], win[4], wraps) >= shape[1]

\* minimap[y:y+h, x:x+w] has the w x h size of the mask; if not, cv2 raises
SliceLen(from, to, size) == Max(0, Min(to, size) - Min(from, size))

RegionFits(cand, icon_size, shape, wraps) ==
    LET win == Window(cand, icon_size, wraps)
    IN  /\ SliceLen(win[1], AddU16(win[1], win[3], wraps), shape[2]) = win[3]
        /\ SliceLen(win[2], AddU16(win[2], win[4], wraps), shape[1]) = win[4]

NoMatch == <<>>

\* a comparison that lets a later candidate replace an equal earlier one
Better_OrEqual(score, best_similarity) == score >= best_similarity

\* a comparison that accepts a candidate only if it scores below the best so far
Better_Lower(score, best_similarity) == score < best_similarity

\* if combined_similarity > best_similarity
Better(score, best_similarity) == score > best_similarity

\* the candidate loop of process_champion from candidate i on;
\* scores[i] is combined_similarity of candidate i for this champion
RECURSIVE BestCandidate(_, _, _, _, _, _, _, _)
BestCandidate(cands, scores, i, best_match, best_similarity, icon_size, shape, wraps) ==
    IF i > Len(cands)
    THEN [match |-> best_match, score |-> best_similarity, raised |-> FALSE]
    ELSE IF OutOfBounds(cands[i], icon_size, shape, wraps)
    THEN BestCandidate(cands, scores, i + 1, best_match, best_similarity,
                       icon_size, shape, wraps)
    ELSE IF ~RegionFits(cands[i], icon_size, shape, wraps)
    THEN [match |-> best_match, score |-> best_similarity, raised |-> TRUE]
    ELSE IF Better(scores[i], best_similarity)
    THEN BestCandidate(cands, scores, i + 1, <<cands[i][1], cands[i][2]>>, scores[i],
                       icon_size, shape, wraps)
    ELSE BestCandidate(cands, scores, i + 1, best_match, best_similarity,
                       icon_size, shape, wraps)

\* the icon is usable: it exists, is readable, is large enough and resizes
IconUsable(icon, icon_size) ==
    /\ icon.exists
    /\ icon.readable
    /\ ~(icon.shape[1] < icon_size[1] \/ icon.shape[2] < icon_size[2])
    /\ icon.resizes

\* an early return that forgets the champion's entry
IconFailure_NoEntry(champ, st) == st

\* an unusable icon that aborts the call
IconFailure_Raises(champ, st) == [st EXCEPT !.raised = TRUE]

\* the four early returns of process_champion on an unusable icon
IconFailure(champ, st) == [st EXCEPT !.str = DictSet(st.str, champ, NotVisible)]

\* a candidate loop that starts below every score
InitialBest_Unset(thr) == -1

\* best_similarity = threshold before the candidate loop
InitialBest(thr) == thr

\* a match stored as a description only
StoreMatch_StrOnly(champ, best_match, shape, st) ==
    IF best_match # NoMatch
    THEN [st EXCEPT !.str = DictSet(st.str, champ,
                                describe_location(best_match[1] * CoordScale,
                                                  best_match[2] * CoordScale, shape))]
    ELSE [st EXCEPT !.str = DictSet(st.str, champ, NotVisible)]

\* the end of process_champion: best_match is None or an (x, y) centre
StoreMatch(champ, best_match, shape, st) ==
    IF best_match # NoMatch
    THEN LET x == best_match[1] * CoordScale
             y == best_match[2] * CoordScale
         IN  [st EXCEPT
                !.xy = DictSet(st.xy, champ, normalize_coordinates(x, y, shape)),
                !.str = DictSet(st.str, champ, describe_location(x, y, shape))]
    ELSE [st EXCEPT !.str = DictSet(st.str, champ, NotVisible)]

\* process_champion on the call's result maps st = [str, xy, raised]
process_champion(champ, cands, icon, scores, thr, icon_size, shape, wraps, st) ==
    IF ~IconUsable(icon, icon_size)
    THEN IconFailure(champ, st)
    ELSE LET best == BestCandidate(cands, scores, 1, NoMatch, InitialBest(thr),
                                   icon_size, shape, wraps)
         IN  IF best.raised THEN [st EXCEPT !.raised = TRUE]
             ELSE StoreMatch(champ, best.match, shape, st)

\* ------------------------------------------------------------------------
\* calculate_champion_distances: positions in 1/DistScale pixel of the 512
\* frame, distances in 1/DistScale game unit
\* ------------------------------------------------------------------------
DistScale == CoordScale \div 512

\* PIXELS_TO_UNITS = 15000 / 512
UnitsPerFrame == 15000

\* None as a position and as a distance, and a value that is not None
NoPosition == [none |-> TRUE, value |-> <<>>]

NoDistance == [none |-> TRUE, value |-> 0]

Some(v) == [none |-> FALSE, value |-> v]

\* a pixel offset that is one unit off
Offset_OneOff(target, ref) == target - ref + 1

\* target_x - ref_x
Offset(target, ref) == target - ref

\* ((target_x - ref_x) ** 2 + (target_y - ref_y) ** 2) ** 0.5
pixel_distance(ref, target) ==
    ISqrt(Offset(target[1], ref[1]) * Offset(target[1], ref[1])
          + Offset(target[2], ref[2]) * Offset(target[2], ref[2]))

game_distance(ref, target) == RoundDiv(pixel_distance(ref, target) * UnitsPerFrame, 512)

\* champ not in positions_xy or positions_xy[champ] is None
Absent(positions, champ) == champ \notin DOMAIN positions \/ positions[champ].none

\* an early return with no entries
AbsentReference_Empty(targets) == [champ \in {} |-> NoDistance]

\* {champ: None for champ in target_champions}
AbsentReference(targets) == [champ \in targets |-> NoDistance]

\* the dictionary calculate_champion_distances returns
calculate_champion_distances(positions_xy, reference_champion, target_champions) ==
    LET targets == {target_champions[i] : i \in 1..Len(target_champions)}
    IN  IF Absent(positions_xy, reference_champion)
        THEN AbsentReference(targets)
        ELSE [champ \in targets |->
                IF Absent(positions_xy, champ) THEN NoDistance
                ELSE Some(game_distance(positions_xy[reference_champion].value,
                                        positions_xy[champ].value))]

VARIABLES dist_positions, dist_reference, dist_targets, distances

distvars == <<dist_positions, dist_reference, dist_targets, distances>>

MaxTargets == 2

DistChampions == {"Vayne", "Poppy", "Nasus"}

\* positions of the 512 frame, in 1/DistScale pixel
DistPoints == {<<0, 0>>, <<24, 32>>, <<512 * DistScale, 512 * DistScale>>}

DistEntries == {NoPosition} \cup {Some(p) : p \in DistPoints}

\* no call made yet
NoDistances == [called |-> FALSE, entries |-> [c \in {} |-> NoDistance]]

DistanceInit ==
    /\ dist_positions \in UNION {[keys -> DistEntries] : keys \in SUBSET DistChampions}
    /\ dist_reference \in DistChampions
    /\ dist_targets \in UNION {[1..n -> DistChampions] : n \in 0..MaxTargets}
    /\ distances = NoDistances

DistanceIdle ==
    /\ dist_positions = [c \in {} |-> NoPosition]
    /\ dist_reference = ""
    /\ dist_targets = <<>>
    /\ distances = NoDistances

\* ------------------------------------------------------------------------
\* The similarity of one candidate, process_champion 645-701, in 1/1000;
\* the combined similarity in 1/20000
NaN == [none |-> TRUE, value |-> 0]

isnan(v) == v.none

\* hog_similarity = 0.0 if it is NaN
hog_guard(v) == IF isnan(v) THEN 0 ELSE v.value

\* x_similarity = 0.0 if np.isnan(x_similarity) else x_similarity, then
\* x_similarity = 1.0 - x_similarity
channel_similarity(distance) ==
    1000 - (IF isnan(distance) THEN 0 ELSE distance.value)

\* 10 * (0.7 * h + 0.2 * s + 0.1 * v)
color_similarity(h, s, v) ==
    7 * channel_similarity(h) + 2 * channel_similarity(s) + channel_similarity(v)

\* 20 * (alpha * hog_similarity + (1 - alpha) * color_similarity), alpha = 0.5
combined_similarity(hog_sim, h, s, v) == 10 * hog_guard(hog_sim) + color_similarity(h, s, v)

VARIABLES
    sim_input,          \* 1 - cosine(...) and the three cv2.compareHist results
    sim_output          \* the channel similarities and combined_similarity

simvars == <<sim_input, sim_output>>

MaxLevels == 2

\* a comparison result: NaN, or a value in steps of 1 / MaxLevels
Comparisons == {NaN} \cup {Some((k * 1000) \div MaxLevels) : k \in 0..MaxLevels}

NoSimilarity == [scored |-> FALSE, h |-> 0, s |-> 0, v |-> 0, combined |-> 0]

ScoringInit ==
    /\ sim_input \in [hog : Comparisons, h : Comparisons, s : Comparisons, v : Comparisons]
    /\ sim_output = NoSimilarity

ScoringIdle ==
    /\ sim_input = [hog |-> NaN, h |-> NaN, s |-> NaN, v |-> NaN]
    /\ sim_output = NoSimilarity

\* ------------------------------------------------------------------------
\* compute_hough_candidates on one colour mask
\* ------------------------------------------------------------------------
VARIABLES
    hough_shape,        \* minimap.shape
    hough_wraps,        \* the NumPy build promotes np.uint16 - int to uint16
    hough_pc,           \* "start", "found", "done"
    hough_circles,      \* np.uint16(np.around(circles[0, :]))
    hough_candidates    \* the returned list

houghvars == <<hough_shape, hough_wraps, hough_pc, hough_circles, hough_candidates>>

HoughShapes == {<<128, 128>>, <<96, 128>>, <<200, 200>>}

HoughCentres == {<<40, 30>>, <<60, 30>>}

MaxFound == 9

HoughInit ==
    /\ hough_shape \in HoughShapes
    /\ hough_wraps \in BOOLEAN
    /\ hough_pc = "start"
    /\ hough_circles = <<>>
    /\ hough_candidates = <<>>

HoughIdle ==
    /\ hough_shape = <<0, 0>>
    /\ hough_wraps = FALSE
    /\ hough_pc = "done"
    /\ hough_circles = <<>>
    /\ hough_candidates = <<>>

\* ------------------------------------------------------------------------
\* ScreenshotHandler: every trigger runs process_screenshot in its own thread
\* ------------------------------------------------------------------------
VARIABLES
    main_window,        \* self._main_window is set
    shot_pc,            \* per trigger: "idle", "capture", "crop", "post", "done"
    shot_agent,         \* per trigger: agent_name
    shot_saved,         \* per trigger: what process_minimap_crop did
    shot_value,         \* per trigger: what take_screenshot_and_crop gave
    shot_events         \* the events posted so far, in order

shotvars == <<main_window, shot_pc, shot_agent, shot_saved, shot_value, shot_events>>

MaxTriggers == 2

Triggers == 1..MaxTriggers

AgentNames == {"MacroAgent", "VisionAgent"}

\* return values and exceptions
None == [kind |-> "None", path |-> <<>>]

Raised == [kind |-> "raised", path |-> <<>>]

\* the path save_minimap_crop writes for the screenshot of trigger t
MinimapPath(t) == [kind |-> "path", path |-> <<"minimap", t>>]

NotRun == [kind |-> "not run", path |-> <<>>]

ShotInit ==
    /\ main_window \in BOOLEAN
    /\ shot_pc = [t \in Triggers |-> "idle"]
    /\ shot_agent = [t \in Triggers |-> ""]
    /\ shot_saved = [t \in Triggers |-> NotRun]
    /\ shot_value = [t \in Triggers |-> NotRun]
    /\ shot_events = <<>>

ShotIdle ==
    /\ main_window = FALSE
    /\ shot_pc = [t \in Triggers |-> "done"]
    /\ shot_agent = [t \in Triggers |-> ""]
    /\ shot_saved = [t \in Triggers |-> NotRun]
    /\ shot_value = [t \in Triggers |-> NotRun]
    /\ shot_events = <<>>

\* ------------------------------------------------------------------------
\* TTSManager: speak and stop_speaking on the caller's thread, and the worker
\* thread of _process_speech_queue
\* ------------------------------------------------------------------------
VARIABLES
    tts_engine,         \* "kokoro" or "openai"
    speech_queue,       \* the texts waiting, each [id, chunks]
    should_stop,
    is_speaking,
    stop_pc,            \* stop_speaking: "idle", "check", "get", "finish", "returned"
    worker_pc,          \* the worker: "get", "flags", "chunk", "playing", "done"
    worker_text,        \* the text the worker took from the queue
    worker_chunk,       \* the chunk the worker is at
    spoken,             \* number of speak calls so far
    played              \* the chunks whose playback started, in order

ttsvars == <<tts_engine, speech_queue, should_stop, is_speaking, stop_pc, worker_pc,
             worker_text, worker_chunk, spoken, played>>

MaxTexts == 2

MaxChunks == 2

NoText == [id |-> 0, chunks |-> 0]

SpeechInit ==
    /\ tts_engine \in {"kokoro", "openai"}
    /\ speech_queue = <<>>
    /\ should_stop = FALSE
    /\ is_speaking = FALSE
    /\ stop_pc = "idle"
    /\ worker_pc = "get"
    /\ worker_text = NoText
    /\ worker_chunk = 0
    /\ spoken = 0
    /\ played = <<>>

SpeechIdle ==
    /\ tts_engine = "kokoro"
    /\ speech_queue = <<>>
    /\ should_stop = FALSE
    /\ is_speaking = FALSE
    /\ stop_pc = "returned"
    /\ worker_pc = "get"
    /\ worker_text = NoText
    /\ worker_chunk = 0
    /\ spoken = MaxTexts
    /\ played = <<>>

\* ------------------------------------------------------------------------
\* The pair loop of classify_overlapping_circles(candidates)
VARIABLES
    cls_candidates,     \* the (x, y, r, score) tuples
    cls_pc,             \* "pairs", "return", "done"
    cls_i, cls_j,       \* the pair the loop is at
    is_foreground,
    cls_result,         \* the returned (x, y, r, score, is_foreground) tuples
    cls_wraps,          \* the NumPy build promotes np.uint16 op int to uint16
    cls_masks           \* create_occlusion_mask of every returned candidate

clsvars == <<cls_candidates, cls_pc, cls_i, cls_j, is_foreground, cls_result,
             cls_wraps, cls_masks>>

MaxList == 3

\* candidate tuples: three circles in a row, concentric circles of several
\* radii, circles of different scores
CandidatePool ==
    { <<40, 30, 4, 100>>, <<44, 30, 4, 100>>, <<48, 30, 4, 100>>,
      <<40, 30, 5, 90>>, <<40, 30, 4, 50>>,
      <<100, 100, 20, 90>>, <<100, 100, 18, 80>>, <<100, 100, 17, 70>> }

\* the candidate lists: every ordered selection of at most MaxList tuples
CandidateLists ==
    UNION {{cs \in [1..n -> CandidatePool] : \A a, b \in 1..n : a # b => cs[a] # cs[b]}
           : n \in 0..MaxList}

ClassifyInit ==
    /\ cls_candidates \in CandidateLists
    /\ cls_pc = IF Len(cls_candidates) >= 2 THEN "pairs" ELSE "return"
    /\ cls_i = 1
    /\ cls_j = 2
    /\ is_foreground = [k \in 1..Len(cls_candidates) |-> TRUE]
    /\ cls_result = <<>>
    /\ cls_wraps \in BOOLEAN
    /\ cls_masks = <<>>

ClassifyIdle ==
    /\ cls_candidates = <<>>
    /\ cls_pc = "idle"
    /\ cls_i = 0
    /\ cls_j = 0
    /\ is_foreground = <<>>
    /\ cls_result = <<>>
    /\ cls_wraps = FALSE
    /\ cls_masks = <<>>

\* ------------------------------------------------------------------------
\* The state of a process that runs several calls of detect_champion_positions
VARIABLES
    icons_dir,          \* vision/icons: the icon file of each champion
    numpy_wraps,        \* the NumPy build promotes np.uint16 - int to uint16
    call_input,         \* per call: minimap file, rosters, threshold
    call_pc,            \* per call: "ready", "candidates", "ally", "enemy",
                        \*           "returned", "raised"
    call_idx,           \* per call: position of the roster loop
    call_candidates,    \* per call: icon_size, blue_classified, red_classified
    call_positions,     \* per call frame: positions_str, positions_xy
    call_result,        \* per call: the returned pair of maps
    call_history,       \* per call: "first", "after" an earlier call ended,
                        \*           "overlap" with a call in progress
    annotation_parses,  \* runs of parse_annotations in the process so far
    icon_reads          \* runs of cv2.imread per icon file so far

callvars == <<icons_dir, numpy_wraps, call_input, call_pc, call_idx, call_candidates,
              call_positions, call_result, call_history, annotation_parses, icon_reads>>

\* ------------------------------------------------------------------------
\* One call of detect_champion_positions as a state machine
\* ------------------------------------------------------------------------
VARIABLES
    pc,               \* "start", "candidates", "ally", "enemy", "returned", "raised"
    minimap,          \* the image file: readable, shape <<height, width>>,
                      \* blue / red: the colour filter finds a pixel
    threshold,
    ally_champions,
    enemy_champions,
    uint16_wraps,     \* the NumPy build promotes np.uint16 - int to uint16
    icon_size,
    blue_classified,
    red_classified,
    positions_str,
    positions_xy,
    champ_idx,        \* position of the roster loop
    cur               \* what the last process_champion call read

dvars == <<pc, minimap, threshold, ally_champions, enemy_champions, uint16_wraps,
           icon_size, blue_classified, red_classified, positions_str, positions_xy,
           champ_idx, cur>>

MaxCand == 2

DefaultThreshold == 0

Thresholds == {DefaultThreshold, 40}

ScoreValues == {0, 40, 90}

AllyRosters == {<<>>, <<"Vayne">>, <<"Vayne", "Poppy">>}

EnemyRosters == {<<>>, <<"Nasus">>, <<"Vayne">>}

UnreadableMinimap == [readable |-> FALSE, shape |-> <<0, 0>>, blue |-> FALSE, red |-> FALSE]

Minimaps ==
    {UnreadableMinimap}
    \cup {m \in [readable : {TRUE}, shape : {<<128, 128>>, <<96, 128>>},
                 blue : BOOLEAN, red : BOOLEAN] : m.blue \/ m.red}

\* rounded (x, y, r) circles HoughCircles can report on these images
BlueCircles == {<<40, 30, 7>>, <<44, 30, 7>>, <<5, 30, 6>>}

RedCircles == {<<80, 40, 7>>}

\* radius limits that let HoughCircles report circles of any radius
HoughLimits_NoMinimum(size) ==
    [minDist   |-> (size[1] * 3) \div 10,
     minRadius |-> 0,
     maxRadius |-> ((size[1] \div 2) * 12) \div 10]

\* the HoughCircles parameters computed by compute_hough_candidates
HoughLimits(size) ==
    LET icon_diameter == size[1]
        icon_radius == icon_diameter \div 2
    IN  [minDist   |-> (icon_diameter * 3) \div 10,
         minRadius |-> (icon_radius * 8) \div 10,
         maxRadius |-> (icon_radius * 12) \div 10]

\* what HoughCircles may return for a mask: circles of the pool within the
\* radius range, centres at least minDist apart, none for an empty mask
HoughResults(pool, any_pixel, size) ==
    LET lim == HoughLimits(size)
        ok(c) == lim.minRadius <= c[3] /\ c[3] <= lim.maxRadius
        far(c, d) == SqDistance(c, d) >= lim.minDist * lim.minDist
    IN  IF ~any_pixel THEN {<<>>}
        ELSE {cs \in UNION {[1..n -> pool] : n \in 0..MaxCand} :
                /\ \A i \in 1..Len(cs) : ok(cs[i])
                /\ \A i, j \in 1..Len(cs) : i < j => far(cs[i], cs[j])}

MissingIcon == [exists |-> FALSE, readable |-> FALSE, shape |-> <<0, 0>>, resizes |-> FALSE]

UnreadableIcon == [exists |-> TRUE, readable |-> FALSE, shape |-> <<0, 0>>, resizes |-> FALSE]

SmallIcon == [exists |-> TRUE, readable |-> TRUE, shape |-> <<8, 8>>, resizes |-> TRUE]

BrokenIcon == [exists |-> TRUE, readable |-> TRUE, shape |-> <<120, 120>>, resizes |-> FALSE]

GoodIcon == [exists |-> TRUE, readable |-> TRUE, shape |-> <<120, 120>>, resizes |-> TRUE]

IconFiles == {MissingIcon, UnreadableIcon, SmallIcon, BrokenIcon, GoodIcon}

\* combined_similarity per candidate; 0 where the code computes none
ScoreChoices(cands, icon) ==
    {s \in [1..Len(cands) -> ScoreValues] :
        \A i \in 1..Len(cands) :
            (~IconUsable(icon, icon_size)
             \/ OutOfBounds(cands[i], icon_size, minimap.shape, uint16_wraps))
            => s[i] = 0}

NoCall == [champ |-> "", side |-> "", icon |-> MissingIcon, scores |-> <<>>]

DetectInit ==
    /\ pc = "start"
    /\ minimap \in Minimaps
    /\ threshold \in Thresholds
    /\ ally_champions \in AllyRosters
    /\ enemy_champions \in EnemyRosters
    /\ uint16_wraps \in BOOLEAN
    /\ icon_size = <<0, 0>>
    /\ blue_classified = <<>>
    /\ red_classified = <<>>
    /\ positions_str = EmptyDict
    /\ positions_xy = EmptyDict
    /\ champ_idx = 0
    /\ cur = NoCall

\* where the roster loops stand after the loop of `side` passed index i
AfterLoop(side, i) ==
    IF side = "ally" /\ i < Len(ally_champions) THEN <<"ally", i + 1>>
    ELSE IF side = "ally" /\ enemy_champions # <<>> THEN <<"enemy", 1>>
    ELSE IF side = "enemy" /\ i < Len(enemy_champions) THEN <<"enemy", i + 1>>
    ELSE <<"returned", 0>>

\* a read whose failure goes unnoticed
ImreadFails_Unchecked(image) == FALSE

\* cv2.imread gives None
ImreadFails(image) == ~image.readable

\* cv2.imread of the minimap; ValueError if it gives None
ReadMinimap ==
    /\ pc = "start"
    /\ IF ImreadFails(minimap)
       THEN pc' = "raised" /\ icon_size' = icon_size
       ELSE pc' = "candidates" /\ icon_size' = get_minimap_icon_size(minimap.shape)
    /\ UNCHANGED <<minimap, threshold, ally_champions, enemy_champions, uint16_wraps,
                   blue_classified, red_classified, positions_str, positions_xy,
                   champ_idx, cur>>
    /\ UNCHANGED <<ovars, mvars, distvars, descvars, callvars, clsvars, simvars, houghvars, shotvars, ttsvars>>

\* colour filters, compute_hough_candidates and classify_overlapping_circles
FindCandidates ==
    /\ pc = "candidates"
    /\ \E blue \in HoughResults(BlueCircles, minimap.blue, icon_size),
          red \in HoughResults(RedCircles, minimap.red, icon_size) :
          /\ blue_classified' =
                classify_overlapping_circles(compute_hough_candidates(blue, uint16_wraps))
          /\ red_classified' =
                classify_overlapping_circles(compute_hough_candidates(red, uint16_wraps))
    /\ pc' = AfterLoop("ally", IF ally_champions = <<>> THEN 0 ELSE -1)[1]
    /\ champ_idx' = IF ally_champions = <<>> /\ enemy_champions = <<>> THEN 0 ELSE 1
    /\ UNCHANGED <<minimap, threshold, ally_champions, enemy_champions, uint16_wraps,
                   icon_size, positions_str, positions_xy, cur>>
    /\ UNCHANGED <<ovars, mvars, distvars, descvars, callvars, clsvars, simvars, houghvars, shotvars, ttsvars>>

\* for champ in ally_champions: process_champion(champ, ..., blue_classified, ...)
ProcessAlly ==
    /\ pc = "ally"
    /\ \E icon \in IconFiles :
       \E scores \in ScoreChoices(blue_classified, icon) :
          \E st \in {process_champion(ally_champions[champ_idx], blue_classified, icon, scores,
                        threshold, icon_size, minimap.shape, uint16_wraps,
                        [str |-> positions_str, xy |-> positions_xy, raised |-> FALSE])} :
              /\ positions_str' = st.str
              /\ positions_xy' = st.xy
              /\ cur' = [champ |-> ally_champions[champ_idx], side |-> "ally", icon |-> icon, scores |-> scores]
              /\ pc' = IF st.raised THEN "raised" ELSE AfterLoop("ally", champ_idx)[1]
              /\ champ_idx' = IF st.raised THEN champ_idx ELSE AfterLoop("ally", champ_idx)[2]
    /\ UNCHANGED <<minimap, threshold, ally_champions, enemy_champions, uint16_wraps,
                   icon_size, blue_classified, red_classified>>
    /\ UNCHANGED <<ovars, mvars, distvars, descvars, callvars, clsvars, simvars, houghvars, shotvars, ttsvars>>

\* enemy champions matched against the ally candidates
EnemyCandidates_Blue == blue_classified

\* the candidate list handed to process_champion for an enemy champion
EnemyCandidates == red_classified

\* for champ in enemy_champions: process_champion(champ, ..., red_classified, ...)
ProcessEnemy ==
    /\ pc = "enemy"
    /\ \E icon \in IconFiles :
       \E scores \in ScoreChoices(EnemyCandidates, icon) :
          \E st \in {process_champion(enemy_champions[champ_idx], EnemyCandidates, icon, scores,
                        threshold, icon_size, minimap.shape, uint16_wraps,
                        [str |-> positions_str, xy |-> positions_xy, raised |-> FALSE])} :
              /\ positions_str' = st.str
              /\ positions_xy' = st.xy
              /\ cur' = [champ |-> enemy_champions[champ_idx], side |-> "enemy", icon |-> icon, scores |-> scores]
              /\ pc' = IF st.raised THEN "raised" ELSE AfterLoop("enemy", champ_idx)[1]
              /\ champ_idx' = IF st.raised THEN champ_idx ELSE AfterLoop("enemy", champ_idx)[2]
    /\ UNCHANGED <<minimap, threshold, ally_champions, enemy_champions, uint16_wraps,
                   icon_size, blue_classified, red_classified>>
    /\ UNCHANGED <<ovars, mvars, distvars, descvars, callvars, clsvars, simvars, houghvars, shotvars, ttsvars>>

\* ------------------------------------------------------------------------
\* Several calls of detect_champion_positions in one process, each started
\* in a thread of its own by update_with_game_state_and_image
\* ------------------------------------------------------------------------
MaxCalls == 2

Calls == 1..MaxCalls

Champions == {"Vayne", "Poppy", "Nasus"}

\* the icon directory: one file per champion, or none
IconDirs ==
    { [ch \in Champions |-> IF ch = "Nasus" THEN MissingIcon ELSE GoodIcon],
      [ch \in Champions |-> IF ch = "Poppy" THEN UnreadableIcon ELSE GoodIcon] }

\* minimap files: what cv2.imread, the colour filters and HoughCircles give
\* for the file, and combined_similarity of candidate i per champion
UnreadableFrame ==
    [readable |-> FALSE, shape |-> <<0, 0>>, blue |-> <<>>, red |-> <<>>,
     scores |-> [ch \in Champions |-> <<>>]]

CrowdedFrame ==
    [readable |-> TRUE, shape |-> <<128, 128>>,
     blue |-> << <<40, 30, 7>>, <<44, 30, 7>> >>, red |-> << <<80, 40, 7>> >>,
     scores |-> [ch \in Champions |->
                    IF ch = "Vayne" THEN <<90, 40>>
                    ELSE IF ch = "Poppy" THEN <<40, 90>> ELSE <<90, 0>>]]

BorderFrame ==
    [readable |-> TRUE, shape |-> <<128, 128>>,
     blue |-> << <<5, 30, 6>> >>, red |-> << <<80, 40, 7>> >>,
     scores |-> [ch \in Champions |-> <<40, 40>>]]

\* the arguments of the calls
CallInputs ==
    { [frame |-> CrowdedFrame, ally |-> <<"Vayne", "Poppy">>, enemy |-> <<"Nasus">>,
       threshold |-> DefaultThreshold],
      [frame |-> CrowdedFrame, ally |-> <<"Poppy">>, enemy |-> <<"Vayne">>,
       threshold |-> 40],
      [frame |-> BorderFrame, ally |-> <<"Vayne">>, enemy |-> <<>>,
       threshold |-> DefaultThreshold],
      [frame |-> UnreadableFrame, ally |-> <<"Vayne">>, enemy |-> <<>>,
       threshold |-> DefaultThreshold] }

\* positions_str = {} and positions_xy = {}
NewMaps == [str |-> EmptyDict, xy |-> EmptyDict, raised |-> FALSE]

NoCandidates == [icon_size |-> <<0, 0>>, blue |-> <<>>, red |-> <<>>]

NoResult == [returned |-> FALSE, str |-> EmptyDict, xy |-> EmptyDict]

CallsInit ==
    /\ icons_dir \in IconDirs
    /\ numpy_wraps \in BOOLEAN
    /\ call_input \in [Calls -> CallInputs]
    /\ call_pc = [c \in Calls |-> "ready"]
    /\ call_idx = [c \in Calls |-> 0]
    /\ call_candidates = [c \in Calls |-> NoCandidates]
    /\ call_positions = [c \in Calls |-> NewMaps]
    /\ call_result = [c \in Calls |-> NoResult]
    /\ call_history = [c \in Calls |-> "none"]
    /\ annotation_parses = 0
    /\ icon_reads = [ch \in Champions |-> 0]

CallsIdle ==
    /\ icons_dir = [ch \in Champions |-> MissingIcon]
    /\ numpy_wraps = FALSE
    /\ call_input = <<>>
    /\ call_pc = <<>>
    /\ call_idx = <<>>
    /\ call_candidates = <<>>
    /\ call_positions = <<>>
    /\ call_result = <<>>
    /\ call_history = <<>>
    /\ annotation_parses = 0
    /\ icon_reads = [ch \in Champions |-> 0]

InProgress(c) == call_pc[c] \in {"candidates", "ally", "enemy"}

Ended(c) == call_pc[c] \in {"returned", "raised"}

\* MinimapCoordinateMapper(): create_minimap_descriptor parses the annotation
\* file, and parse_annotations parses it again
MapperParses(parses) == parses + 2

\* process_champion: cv2.imread of the icon file once the file exists
IconReads(icon, reads) == IF icon.exists THEN reads + 1 ELSE reads

\* one dictionary pair that every call writes to
CallStore_Shared(c) == 1

\* the dictionaries a call writes to: locals of its own frame
CallStore(c) == c

\* dictionaries that start with the entries the call before left
FreshMaps_Previous(positions, c) == IF c > 1 THEN positions[c - 1] ELSE NewMaps

\* positions_str = {}; positions_xy = {}
FreshMaps(positions, c) == NewMaps

\* where the roster loops stand after the loop of `side` passed index i
NextChampion(input, side, i) ==
    IF side = "ally" /\ i < Len(input.ally) THEN <<"ally", i + 1>>
    ELSE IF side = "ally" /\ input.enemy # <<>> THEN <<"enemy", 1>>
    ELSE IF side = "enemy" /\ i < Len(input.enemy) THEN <<"enemy", i + 1>>
    ELSE <<"returned", 0>>

\* combined_similarity of the candidates for a champion on a minimap file
FrameScores(frame, champ, cands, icon, size, wraps) ==
    [i \in 1..Len(cands) |->
        IF ~IconUsable(icon, size) \/ OutOfBounds(cands[i], size, frame.shape, wraps)
        THEN 0
        ELSE frame.scores[champ][i]]

\* lines 283-292: the mapper, cv2.imread of the minimap, the icon size
BeginCall(c) ==
    /\ call_pc[c] = "ready"
    /\ annotation_parses' = MapperParses(annotation_parses)
    /\ call_pc' = [call_pc EXCEPT
                     ![c] = IF ImreadFails(call_input[c].frame) THEN "raised"
                            ELSE "candidates"]
    /\ call_candidates' =
          [call_candidates EXCEPT
             ![c].icon_size = IF ImreadFails(call_input[c].frame) THEN <<0, 0>>
                              ELSE get_minimap_icon_size(call_input[c].frame.shape)]
    /\ call_history' =
          [d \in Calls |->
              IF d = c
              THEN IF \E e \in Calls : InProgress(e) THEN "overlap"
                   ELSE IF \E e \in Calls : Ended(e) THEN "after"
                   ELSE "first"
              ELSE IF InProgress(d) /\ ~ImreadFails(call_input[c].frame) THEN "overlap"
              ELSE call_history[d]]
    /\ UNCHANGED <<icons_dir, numpy_wraps, call_input, call_idx, call_positions,
                   call_result, icon_reads>>
    /\ UNCHANGED <<dvars, ovars, mvars, distvars, descvars, clsvars, simvars, houghvars, shotvars, ttsvars>>

\* lines 307-376: the empty result maps, the candidates of both sides
CallCandidates(c) ==
    /\ call_pc[c] = "candidates"
    /\ call_positions' =
          [call_positions EXCEPT ![CallStore(c)] = FreshMaps(call_positions, c)]
    /\ call_candidates' =
          [call_candidates EXCEPT
             ![c].blue = classify_overlapping_circles(
                            compute_hough_candidates(call_input[c].frame.blue, numpy_wraps)),
             ![c].red = classify_overlapping_circles(
                            compute_hough_candidates(call_input[c].frame.red, numpy_wraps))]
    /\ \E next \in {NextChampion(call_input[c], "ally", 0)} :
          /\ call_pc' = [call_pc EXCEPT ![c] = next[1]]
          /\ call_idx' = [call_idx EXCEPT ![c] = next[2]]
          /\ call_result' =
                IF next[1] = "returned"
                THEN [call_result EXCEPT
                        ![c] = [returned |-> TRUE,
                                str |-> call_positions'[CallStore(c)].str,
                                xy |-> call_positions'[CallStore(c)].xy]]
                ELSE call_result
    /\ UNCHANGED <<icons_dir, numpy_wraps, call_input, call_history,
                   annotation_parses, icon_reads>>
    /\ UNCHANGED <<dvars, ovars, mvars, distvars, descvars, clsvars, simvars, houghvars, shotvars, ttsvars>>

\* lines 894-899: process_champion on the next champion of a roster
CallProcess(c) ==
    /\ call_pc[c] \in {"ally", "enemy"}
    /\ LET input == call_input[c]
           side  == call_pc[c]
           champ == IF side = "ally" THEN input.ally[call_idx[c]]
                    ELSE input.enemy[call_idx[c]]
           cands == IF side = "ally" THEN call_candidates[c].blue
                    ELSE call_candidates[c].red
           size  == call_candidates[c].icon_size
           icon  == icons_dir[champ]
       IN  \E st \in {process_champion(champ, cands, icon,
                         FrameScores(input.frame, champ, cands, icon, size, numpy_wraps),
                         input.threshold, size, input.frame.shape, numpy_wraps,
                         call_positions[CallStore(c)])} :
           \E next \in {NextChampion(input, side, call_idx[c])} :
              /\ icon_reads' = [icon_reads EXCEPT ![champ] = IconReads(icon, icon_reads[champ])]
              /\ call_positions' =
                    [call_positions EXCEPT ![CallStore(c)] = [st EXCEPT !.raised = FALSE]]
              /\ call_pc' = [call_pc EXCEPT ![c] = IF st.raised THEN "raised" ELSE next[1]]
              /\ call_idx' = [call_idx EXCEPT ![c] = IF st.raised THEN call_idx[c] ELSE next[2]]
              /\ call_result' =
                    IF ~st.raised /\ next[1] = "returned"
                    THEN [call_result EXCEPT
                            ![c] = [returned |-> TRUE, str |-> st.str, xy |-> st.xy]]
                    ELSE call_result
    /\ UNCHANGED <<icons_dir, numpy_wraps, call_input, call_candidates, call_history,
                   annotation_parses>>
    /\ UNCHANGED <<dvars, ovars, mvars, distvars, descvars, clsvars, simvars, houghvars, shotvars, ttsvars>>

\* ------------------------------------------------------------------------
\* Specifications
\* ------------------------------------------------------------------------
vars == <<dvars, ovars, mvars, distvars, descvars, callvars, clsvars, simvars, houghvars, shotvars, ttsvars>>

OverlapIdle == circle1 = <<0, 0, 0>> /\ circle2 = <<0, 0, 0>> /\ overlap = -1

MapperIdle ==
    /\ map_point = <<0, 0>>
    /\ map_size = <<512, 512>>
    /\ map_from = "none"
    /\ map_result = <<0, 0>>

DetectIdle ==
    /\ pc = "idle"
    /\ minimap = UnreadableMinimap
    /\ threshold = DefaultThreshold
    /\ ally_champions = <<>>
    /\ enemy_champions = <<>>
    /\ uint16_wraps = FALSE
    /\ icon_size = <<0, 0>>
    /\ blue_classified = <<>>
    /\ red_classified = <<>>
    /\ positions_str = EmptyDict
    /\ positions_xy = EmptyDict
    /\ champ_idx = 0
    /\ cur = NoCall

Init == DetectInit /\ OverlapIdle /\ MapperIdle /\ DistanceIdle /\ DescribeIdle /\ CallsIdle /\ ClassifyIdle /\ ScoringIdle /\ HoughIdle /\ ShotIdle /\ SpeechIdle

Next == ReadMinimap \/ FindCandidates \/ ProcessAlly \/ ProcessEnemy

Spec == Init /\ [][Next]_vars

\* one call of compute_circle_overlap on two circles
OverlapCall ==
    /\ overlap = -1
    /\ overlap' = compute_circle_overlap(circle1, circle2)
    /\ UNCHANGED <<circle1, circle2, dvars, mvars, distvars, descvars, callvars, clsvars, simvars, houghvars, shotvars, ttsvars>>

InitOverlap == OverlapInit /\ DetectIdle /\ MapperIdle /\ DistanceIdle /\ DescribeIdle /\ CallsIdle /\ ClassifyIdle /\ ScoringIdle /\ HoughIdle /\ ShotIdle /\ SpeechIdle

SpecOverlap == InitOverlap /\ [][OverlapCall]_vars

\* denormalize(normalize(P, S), S)
RoundTripPixel ==
    /\ map_from = "none"
    /\ map_from' = "pixel"
    /\ LET n == normalize_coordinates(map_point[1], map_point[2], map_size)
       IN  map_result' = denormalize_coordinates(n[1], n[2], map_size)
    /\ UNCHANGED <<map_point, map_size, dvars, ovars, distvars, descvars, callvars, clsvars, simvars, houghvars, shotvars, ttsvars>>

\* normalize(denormalize(Q, S), S)
RoundTripReference ==
    /\ map_from = "none"
    /\ map_from' = "reference"
    /\ LET d == denormalize_coordinates(map_point[1], map_point[2], map_size)
       IN  map_result' = normalize_coordinates(d[1], d[2], map_size)
    /\ UNCHANGED <<map_point, map_size, dvars, ovars, distvars, descvars, callvars, clsvars, simvars, houghvars, shotvars, ttsvars>>

MapperNext == RoundTripPixel \/ RoundTripReference

InitMapper == MapperInit /\ DetectIdle /\ OverlapIdle /\ DistanceIdle /\ DescribeIdle /\ CallsIdle /\ ClassifyIdle /\ ScoringIdle /\ HoughIdle /\ ShotIdle /\ SpeechIdle

SpecMapper == InitMapper /\ [][MapperNext]_vars

\* one call of calculate_champion_distances
DistanceCall ==
    /\ ~distances.called
    /\ distances' =
          [called |-> TRUE,
           entries |-> calculate_champion_distances(dist_positions, dist_reference,
                                                    dist_targets)]
    /\ UNCHANGED <<dist_positions, dist_reference, dist_targets, dvars, ovars, mvars, descvars, callvars, clsvars, simvars, houghvars, shotvars, ttsvars>>

InitDistance == DistanceInit /\ DetectIdle /\ OverlapIdle /\ MapperIdle /\ DescribeIdle /\ CallsIdle /\ ClassifyIdle /\ ScoringIdle /\ HoughIdle /\ ShotIdle /\ SpeechIdle

SpecDistance == InitDistance /\ [][DistanceCall]_vars

\* get_location_description on a point and a region list
DescribeCall ==
    /\ ~description.called
    /\ \E d \in {get_location_description(desc_point[1], desc_point[2],
                                          desc_regions, desc_n)} :
          description' = [called |-> TRUE, result |-> d, text |-> description_text(d)]
    /\ UNCHANGED <<desc_point, desc_regions, desc_n, dvars, ovars, mvars, distvars, callvars, clsvars, simvars, houghvars, shotvars, ttsvars>>

InitDescribe == DescribeInit /\ DetectIdle /\ OverlapIdle /\ MapperIdle /\ DistanceIdle /\ CallsIdle /\ ClassifyIdle /\ ScoringIdle /\ HoughIdle /\ ShotIdle /\ SpeechIdle

SpecDescribe == InitDescribe /\ [][DescribeCall]_vars

\* the threads of the calls, interleaved in any order
CallsNext == \E c \in Calls : BeginCall(c) \/ CallCandidates(c) \/ CallProcess(c)

InitCalls == CallsInit /\ DetectIdle /\ OverlapIdle /\ MapperIdle /\ DistanceIdle /\ DescribeIdle /\ ClassifyIdle /\ ScoringIdle /\ HoughIdle /\ ShotIdle /\ SpeechIdle

SpecCalls == InitCalls /\ [][CallsNext]_vars

\* one pass of the inner loop: the pair (i, j), then the next pair
ClassifyPair ==
    /\ cls_pc = "pairs"
    /\ is_foreground' =
          [k \in 1..Len(cls_candidates) |->
              is_foreground[k] /\ ~DemotedBy(cls_candidates, cls_i, cls_j, k)]
    /\ IF cls_j < Len(cls_candidates)
       THEN cls_i' = cls_i /\ cls_j' = cls_j + 1 /\ cls_pc' = "pairs"
       ELSE IF cls_i + 1 < Len(cls_candidates)
       THEN cls_i' = cls_i + 1 /\ cls_j' = cls_i + 2 /\ cls_pc' = "pairs"
       ELSE cls_i' = cls_i /\ cls_j' = cls_j /\ cls_pc' = "return"
    /\ UNCHANGED <<cls_candidates, cls_result, cls_wraps, cls_masks>>
    /\ UNCHANGED <<dvars, ovars, mvars, distvars, descvars, callvars, simvars, houghvars, shotvars, ttsvars>>

\* the candidates zipped with their flags; [] for no candidate
ClassifyReturn ==
    /\ cls_pc = "return"
    /\ cls_result' =
          [k \in 1..Len(cls_candidates) |->
              <<cls_candidates[k][1], cls_candidates[k][2], cls_candidates[k][3],
                cls_candidates[k][4], is_foreground[k]>>]
    /\ cls_pc' = "done"
    /\ UNCHANGED <<cls_candidates, cls_i, cls_j, is_foreground, cls_wraps, cls_masks>>
    /\ UNCHANGED <<dvars, ovars, mvars, distvars, descvars, callvars, simvars, houghvars, shotvars, ttsvars>>

\* process_champion, 551-572: the mask of every classified candidate
MaskCandidates ==
    /\ cls_pc = "done"
    /\ cls_masks' =
          [k \in 1..Len(cls_result) |->
              create_occlusion_mask(
                  <<cls_result[k][1], cls_result[k][2], cls_result[k][3]>>,
                  [m \in 1..Len(cls_result) |->
                      <<cls_result[m][1], cls_result[m][2], cls_result[m][3]>>],
                  cls_result[k][5], MaskSize, cls_wraps)]
    /\ cls_pc' = "masked"
    /\ UNCHANGED <<cls_candidates, cls_i, cls_j, is_foreground, cls_result, cls_wraps>>
    /\ UNCHANGED <<dvars, ovars, mvars, distvars, descvars, callvars, simvars, houghvars, shotvars, ttsvars>>

\* classify_overlapping_circles on a candidate list, then the masks
ClassifyNext == ClassifyPair \/ ClassifyReturn \/ MaskCandidates

InitClassify ==
    ClassifyInit /\ DetectIdle /\ OverlapIdle /\ MapperIdle /\ DistanceIdle /\ DescribeIdle /\ CallsIdle /\ ScoringIdle /\ HoughIdle /\ ShotIdle /\ SpeechIdle

SpecClassify == InitClassify /\ [][ClassifyNext]_vars

\* the similarities of one candidate from its comparison results
ScoreCandidate ==
    /\ ~sim_output.scored
    /\ sim_output' =
          [scored |-> TRUE,
           h |-> channel_similarity(sim_input.h),
           s |-> channel_similarity(sim_input.s),
           v |-> channel_similarity(sim_input.v),
           combined |-> combined_similarity(sim_input.hog, sim_input.h,
                                            sim_input.s, sim_input.v)]
    /\ UNCHANGED <<sim_input, dvars, ovars, mvars, distvars, descvars, callvars, clsvars, houghvars, shotvars, ttsvars>>

InitScoring ==
    ScoringInit /\ DetectIdle /\ OverlapIdle /\ MapperIdle /\ DistanceIdle /\ DescribeIdle
    /\ CallsIdle /\ ClassifyIdle /\ HoughIdle /\ ShotIdle /\ SpeechIdle

SpecScoring == InitScoring /\ [][ScoreCandidate]_vars

\* the radius range handed to cv2.HoughCircles for this minimap
HoughRange(shape) == HoughLimits(get_minimap_icon_size(shape))

\* cv2.HoughCircles and the rounding to np.uint16
FindCircles ==
    /\ hough_pc = "start"
    /\ \E found \in HoughResults(
                      {<<c[1], c[2], r>> : c \in HoughCentres,
                           r \in HoughRange(hough_shape).minRadius..
                                 Min(MaxFound, HoughRange(hough_shape).maxRadius)},
                      TRUE, get_minimap_icon_size(hough_shape)) :
          hough_circles' = found
    /\ hough_pc' = "found"
    /\ UNCHANGED <<hough_shape, hough_wraps, hough_candidates>>
    /\ UNCHANGED <<dvars, ovars, mvars, distvars, descvars, callvars, clsvars, simvars, shotvars, ttsvars>>

\* the sort by radius and the candidate tuples
BuildCandidates ==
    /\ hough_pc = "found"
    /\ hough_candidates' = compute_hough_candidates(hough_circles, hough_wraps)
    /\ hough_pc' = "done"
    /\ UNCHANGED <<hough_shape, hough_wraps, hough_circles>>
    /\ UNCHANGED <<dvars, ovars, mvars, distvars, descvars, callvars, clsvars, simvars, shotvars, ttsvars>>

HoughNext == FindCircles \/ BuildCandidates

InitHough ==
    HoughInit /\ DetectIdle /\ OverlapIdle /\ MapperIdle /\ DistanceIdle /\ DescribeIdle
    /\ CallsIdle /\ ClassifyIdle /\ ScoringIdle /\ ShotIdle /\ SpeechIdle

SpecHough == InitHough /\ [][HoughNext]_vars

\* _get_valid_event_receiver: the main window, else the active window or the
\* application
Receiver == IF main_window THEN "main_window" ELSE "application"

\* _trigger_agent_update(agent_name): starts the thread of process_screenshot
TriggerAgentUpdate(t) ==
    /\ shot_pc[t] = "idle"
    /\ \E agent_name \in AgentNames : shot_agent' = [shot_agent EXCEPT ![t] = agent_name]
    /\ shot_pc' = [shot_pc EXCEPT ![t] = "capture"]
    /\ UNCHANGED <<main_window, shot_saved, shot_value, shot_events>>
    /\ UNCHANGED <<dvars, ovars, mvars, distvars, descvars, callvars, clsvars, simvars, houghvars, ttsvars>>

\* take_screenshot_and_crop, 19-25: sct.grab and img.save; an exception
\* leaves the function
CaptureScreen(t) ==
    /\ shot_pc[t] = "capture"
    /\ \E captured \in BOOLEAN :
          IF captured
          THEN /\ shot_pc' = [shot_pc EXCEPT ![t] = "crop"]
               /\ shot_value' = shot_value
          ELSE /\ shot_pc' = [shot_pc EXCEPT ![t] = "post"]
               /\ shot_value' = [shot_value EXCEPT ![t] = Raised]
    /\ UNCHANGED <<main_window, shot_agent, shot_saved, shot_events>>
    /\ UNCHANGED <<dvars, ovars, mvars, distvars, descvars, callvars, clsvars, simvars, houghvars, ttsvars>>

\* take_screenshot_and_crop, 28-32: process_minimap_crop saves the crop and
\* returns its path, returns None or raises; the result is not kept, an
\* exception is printed, and the function ends without a return statement
CropMinimap(t) ==
    /\ shot_pc[t] = "crop"
    /\ \E result \in {MinimapPath(t), None, Raised} :
          shot_saved' = [shot_saved EXCEPT ![t] = result]
    /\ shot_value' = [shot_value EXCEPT ![t] = None]
    /\ shot_pc' = [shot_pc EXCEPT ![t] = "post"]
    /\ UNCHANGED <<main_window, shot_agent, shot_events>>
    /\ UNCHANGED <<dvars, ovars, mvars, distvars, descvars, callvars, clsvars, simvars, houghvars, ttsvars>>

\* process_screenshot, 47-80: the event posted for image_path or the exception
PostedEvent(t, image_path) ==
    IF image_path.kind = "path"
    THEN [type |-> "ScreenshotReady", image_path |-> image_path.path,
          agent_name |-> shot_agent[t], receiver |-> Receiver, trigger |-> t]
    ELSE [type |-> "ScreenshotError", image_path |-> <<>>,
          agent_name |-> "", receiver |-> Receiver, trigger |-> t]

PostEvent(t) ==
    /\ shot_pc[t] = "post"
    /\ shot_events' = Append(shot_events, PostedEvent(t, shot_value[t]))
    /\ shot_pc' = [shot_pc EXCEPT ![t] = "done"]
    /\ UNCHANGED <<main_window, shot_agent, shot_saved, shot_value>>
    /\ UNCHANGED <<dvars, ovars, mvars, distvars, descvars, callvars, clsvars, simvars, houghvars, ttsvars>>

ShotNext ==
    \E t \in Triggers :
        TriggerAgentUpdate(t) \/ CaptureScreen(t) \/ CropMinimap(t) \/ PostEvent(t)

InitShot ==
    ShotInit /\ DetectIdle /\ OverlapIdle /\ MapperIdle /\ DistanceIdle /\ DescribeIdle
    /\ CallsIdle /\ ClassifyIdle /\ ScoringIdle /\ HoughIdle /\ SpeechIdle

SpecShot == InitShot /\ [][ShotNext]_vars

\* speak(text) before the stop: a text of `chunks` chunks is put on the
\* queue; a text that is empty once its asterisks are removed (0 chunks) is not
Speak ==
    /\ stop_pc = "idle"
    /\ spoken < MaxTexts
    /\ \E chunks \in 0..MaxChunks :
          speech_queue' = IF chunks = 0 THEN speech_queue
                          ELSE Append(speech_queue, [id |-> spoken + 1, chunks |-> chunks])
    /\ spoken' = spoken + 1
    /\ UNCHANGED <<tts_engine, should_stop, is_speaking, stop_pc, worker_pc, worker_text,
                   worker_chunk, played>>
    /\ UNCHANGED <<dvars, ovars, mvars, distvars, descvars, callvars, clsvars, simvars, houghvars, shotvars>>

\* stop_speaking, 244-249: should_stop = True; audio_thread is None, so no
\* playback is stopped
StopBegin ==
    /\ stop_pc = "idle"
    /\ should_stop' = TRUE
    /\ stop_pc' = "check"
    /\ UNCHANGED <<tts_engine, speech_queue, is_speaking, worker_pc, worker_text,
                   worker_chunk, spoken, played>>
    /\ UNCHANGED <<dvars, ovars, mvars, distvars, descvars, callvars, clsvars, simvars, houghvars, shotvars>>

\* while not self.speech_queue.empty()
StopCheck ==
    /\ stop_pc = "check"
    /\ stop_pc' = IF speech_queue = <<>> THEN "finish" ELSE "get"
    /\ UNCHANGED <<tts_engine, speech_queue, should_stop, is_speaking, worker_pc,
                   worker_text, worker_chunk, spoken, played>>
    /\ UNCHANGED <<dvars, ovars, mvars, distvars, descvars, callvars, clsvars, simvars, houghvars, shotvars>>

\* self.speech_queue.get(): waits while the queue is empty
StopGet ==
    /\ stop_pc = "get"
    /\ speech_queue # <<>>
    /\ speech_queue' = Tail(speech_queue)
    /\ stop_pc' = "check"
    /\ UNCHANGED <<tts_engine, should_stop, is_speaking, worker_pc, worker_text,
                   worker_chunk, spoken, played>>
    /\ UNCHANGED <<dvars, ovars, mvars, distvars, descvars, callvars, clsvars, simvars, houghvars, shotvars>>

\* self.is_speaking = False and the return
StopReturn ==
    /\ stop_pc = "finish"
    /\ is_speaking' = FALSE
    /\ stop_pc' = "returned"
    /\ UNCHANGED <<tts_engine, speech_queue, should_stop, worker_pc, worker_text,
                   worker_chunk, spoken, played>>
    /\ UNCHANGED <<dvars, ovars, mvars, distvars, descvars, callvars, clsvars, simvars, houghvars, shotvars>>

\* _process_speech_queue, 264: text = self.speech_queue.get()
WorkerGet ==
    /\ worker_pc = "get"
    /\ speech_queue # <<>>
    /\ worker_text' = Head(speech_queue)
    /\ speech_queue' = Tail(speech_queue)
    /\ worker_pc' = "flags"
    /\ UNCHANGED <<tts_engine, should_stop, is_speaking, stop_pc, worker_chunk, spoken, played>>
    /\ UNCHANGED <<dvars, ovars, mvars, distvars, descvars, callvars, clsvars, simvars, houghvars, shotvars>>

\* 266-267: is_speaking = True, should_stop = False
WorkerFlags ==
    /\ worker_pc = "flags"
    /\ is_speaking' = TRUE
    /\ should_stop' = FALSE
    /\ worker_chunk' = 1
    /\ worker_pc' = "chunk"
    /\ UNCHANGED <<tts_engine, speech_queue, stop_pc, worker_text, spoken, played>>
    /\ UNCHANGED <<dvars, ovars, mvars, distvars, descvars, callvars, clsvars, simvars, houghvars, shotvars>>

\* the playback of chunk worker_chunk starts
StartPlayback ==
    /\ played' = Append(played, [id |-> worker_text.id, chunk |-> worker_chunk,
                                 after_stop |-> stop_pc = "returned"])
    /\ worker_pc' = "playing"
    /\ worker_chunk' = worker_chunk

\* _process_kokoro_speech: the next chunk, unless should_stop is set; a chunk
\* that fails to synthesize is logged and left out.
\* _process_openai_speech: the whole text as one piece, should_stop not read
WorkerChunk ==
    /\ worker_pc = "chunk"
    /\ IF tts_engine = "kokoro"
       THEN IF worker_chunk > worker_text.chunks \/ should_stop
            THEN worker_pc' = "done" /\ UNCHANGED <<worker_chunk, played>>
            ELSE \E synthesized \in BOOLEAN :
                    IF synthesized THEN StartPlayback
                    ELSE /\ worker_chunk' = worker_chunk + 1
                         /\ UNCHANGED <<worker_pc, played>>
       ELSE IF worker_chunk > 1
            THEN worker_pc' = "done" /\ UNCHANGED <<worker_chunk, played>>
            ELSE \E synthesized \in BOOLEAN :
                    IF synthesized THEN StartPlayback
                    ELSE worker_pc' = "done" /\ UNCHANGED <<worker_chunk, played>>
    /\ UNCHANGED <<tts_engine, speech_queue, should_stop, is_speaking, stop_pc,
                   worker_text, spoken>>
    /\ UNCHANGED <<dvars, ovars, mvars, distvars, descvars, callvars, clsvars, simvars, houghvars, shotvars>>

\* sd.wait() returns at the end of the playback
WorkerWait ==
    /\ worker_pc = "playing"
    /\ worker_chunk' = worker_chunk + 1
    /\ worker_pc' = "chunk"
    /\ UNCHANGED <<tts_engine, speech_queue, should_stop, is_speaking, stop_pc,
                   worker_text, spoken, played>>
    /\ UNCHANGED <<dvars, ovars, mvars, distvars, descvars, callvars, clsvars, simvars, houghvars, shotvars>>

\* 278-279: task_done and is_speaking = False, then the next get
WorkerDone ==
    /\ worker_pc = "done"
    /\ is_speaking' = FALSE
    /\ worker_pc' = "get"
    /\ UNCHANGED <<tts_engine, speech_queue, should_stop, stop_pc, worker_text,
                   worker_chunk, spoken, played>>
    /\ UNCHANGED <<dvars, ovars, mvars, distvars, descvars, callvars, clsvars, simvars, houghvars, shotvars>>

SpeechNext ==
    \/ Speak \/ StopBegin \/ StopCheck \/ StopGet \/ StopReturn
    \/ WorkerGet \/ WorkerFlags \/ WorkerChunk \/ WorkerWait \/ WorkerDone

InitSpeech ==
    SpeechInit /\ DetectIdle /\ OverlapIdle /\ MapperIdle /\ DistanceIdle /\ DescribeIdle
    /\ CallsIdle /\ ClassifyIdle /\ ScoringIdle /\ HoughIdle /\ ShotIdle

SpecSpeech == InitSpeech /\ [][SpeechNext]_vars

\* ------------------------------------------------------------------------
\* Properties
\* ------------------------------------------------------------------------
SeqRange(s) == {s[i] : i \in 1..Len(s)}

Roster == SeqRange(ally_champions) \cup SeqRange(enemy_champions)

Disjoint == SeqRange(ally_champions) \cap SeqRange(enemy_champions) = {}

Located(d) ==
    /\ d.kind \in {"inside", "near", "between"}
    /\ d.labels # <<>>

SameEntry(d1, d2, k) ==
    /\ k \in DOMAIN d1 <=> k \in DOMAIN d2
    /\ k \in DOMAIN d1 => d1[k] = d2[k]

SideCands(side) == IF side = "ally" THEN blue_classified ELSE red_classified

\* the candidates whose window passes the bounds test
ScoredIdx(cands) ==
    {i \in 1..Len(cands) : ~OutOfBounds(cands[i], icon_size, minimap.shape, uint16_wraps)}

\* the earliest candidate of the highest score, if that score exceeds the threshold
BestIdx(cands, scores) ==
    {i \in ScoredIdx(cands) :
        /\ scores[i] > threshold
        /\ \A j \in ScoredIdx(cands) :
              scores[j] <= scores[i] /\ (j < i => scores[j] < scores[i])}

\* what the call stores for a candidate centre
StoredCentre(cand) ==
    normalize_coordinates(cand[1] * CoordScale, cand[2] * CoordScale, minimap.shape)

\* the last process_champion call returned
CallReturned == cur.side # "" /\ pc # "raised"

\* C1: after a normal return positions_str has exactly the roster champions as
\* its keys, and every value is a location description or 'Not visible'.
C1_OneEntryPerChampion ==
    pc = "returned" =>
        /\ DOMAIN positions_str = Roster
        /\ \A c \in Roster :
              positions_str[c] = NotVisible \/ Located(positions_str[c])

\* a return after a match, a miss and a missing icon file
C1_Witness ==
    /\ pc = "returned"
    /\ Len(ally_champions) = 2
    /\ enemy_champions # <<>>
    /\ Disjoint
    /\ Located(positions_str[ally_champions[1]])
    /\ positions_str[ally_champions[2]] = NotVisible
    /\ ~cur.icon.exists

\* C2: a reported position is that of a scored candidate whose score is at
\* least the threshold; a champion all of whose scores are below the threshold
\* is 'Not visible' and gets no positions_xy entry.
C2_ThresholdDecides ==
    CallReturned =>
        LET c == cur.champ
            cands == SideCands(cur.side)
            scored == IF IconUsable(cur.icon, icon_size) THEN ScoredIdx(cands) ELSE {}
        IN  /\ positions_str[c] # NotVisible =>
                /\ c \in DOMAIN positions_xy
                /\ \E i \in scored :
                      /\ cur.scores[i] >= threshold
                      /\ positions_xy[c] = StoredCentre(cands[i])
            /\ (\A i \in scored : cur.scores[i] < threshold) =>
                /\ positions_str[c] = NotVisible
                /\ Disjoint => c \notin DOMAIN positions_xy

\* one champion accepted, the next one scored below a positive threshold
C2_Witness ==
    /\ pc = "returned"
    /\ threshold > 0
    /\ Len(ally_champions) = 2
    /\ enemy_champions = <<>>
    /\ ally_champions[1] \in DOMAIN positions_xy
    /\ IconUsable(cur.icon, icon_size)
    /\ ScoredIdx(blue_classified) # {}
    /\ \A i \in ScoredIdx(blue_classified) : cur.scores[i] < threshold
    /\ positions_str[cur.champ] = NotVisible

St == [str |-> positions_str, xy |-> positions_xy, raised |-> FALSE]

DictDel(d, k) == [c \in (DOMAIN d) \ {k} |-> d[c]]

EntryVariants == {"absent", "hidden", "found"}

\* the result maps with the entries of champion m replaced
Vary(st, m, v) ==
    IF v = "absent"
    THEN [st EXCEPT !.str = DictDel(st.str, m), !.xy = DictDel(st.xy, m)]
    ELSE IF v = "hidden"
    THEN [st EXCEPT !.str = DictSet(st.str, m, NotVisible), !.xy = DictDel(st.xy, m)]
    ELSE [st EXCEPT !.str = DictSet(st.str, m, [kind |-> "inside", labels |-> <<"Baron pit">>]),
                    !.xy = DictSet(st.xy, m, <<0, 0>>)]

\* a call with an unusable icon: no raise, 'Not visible' for the champion, and
\* every other champion's entries as a call with a usable icon leaves them
C3_BadIconStep ==
    (pc \in {"ally", "enemy"} /\ ~IconUsable(cur'.icon, icon_size)) =>
        LET c == cur'.champ
            cands == SideCands(cur'.side)
        IN  /\ pc' # "raised"
            /\ c \in DOMAIN positions_str'
            /\ positions_str'[c] = NotVisible
            /\ c \in DOMAIN positions_xy' <=> c \in DOMAIN positions_xy
            /\ \A scores \in ScoreChoices(cands, GoodIcon) :
                  \A valid \in {process_champion(c, cands, GoodIcon, scores, threshold,
                                    icon_size, minimap.shape, uint16_wraps, St)} :
                      \A d \in Roster \ {c} :
                         /\ SameEntry(positions_str', valid.str, d)
                         /\ SameEntry(positions_xy', valid.xy, d)

\* a call reads nothing of another champion's entries
C3_CallIgnoresOthers ==
    pc \in {"ally", "enemy"} =>
        \A m \in Roster \ {cur'.champ} : \A v \in EntryVariants :
            \A alt \in {process_champion(cur'.champ, SideCands(cur'.side), cur'.icon,
                            cur'.scores, threshold, icon_size, minimap.shape,
                            uint16_wraps, Vary(St, m, v))} :
                /\ alt.raised = (pc' = "raised")
                /\ \A d \in Roster \ {m} :
                      /\ SameEntry(positions_str', alt.str, d)
                      /\ SameEntry(positions_xy', alt.xy, d)

\* C3: a champion whose icon file is missing, unreadable or too small is
\* reported 'Not visible' without the call raising, and the results of the
\* other champions are those the call gives when that icon is valid.
C3_BadIconIsolated == [][C3_BadIconStep /\ C3_CallIgnoresOthers]_vars

\* after a missing, unreadable or too small icon, next to a located champion
C3_Witness ==
    /\ CallReturned
    /\ cur.icon \in {MissingIcon, UnreadableIcon, SmallIcon}
    /\ positions_str[cur.champ] = NotVisible
    /\ \E d \in DOMAIN positions_xy : d # cur.champ

\* C4: with an unreadable minimap the call raises before it looks for
\* candidates or processes a champion, and no result map has an entry.
C4_UnreadableMinimapRaises ==
    (~minimap.readable /\ pc # "start") =>
        /\ pc = "raised"
        /\ cur = NoCall
        /\ champ_idx = 0
        /\ blue_classified = <<>> /\ red_classified = <<>>
        /\ positions_str = EmptyDict
        /\ positions_xy = EmptyDict

\* the raise on an unreadable minimap with both rosters filled
C4_Witness ==
    /\ pc = "raised"
    /\ ~minimap.readable
    /\ ally_champions # <<>>
    /\ enemy_champions # <<>>

\* the champion whose marker a circle of the images is
MarkerOf(cand) ==
    LET centre == <<cand[1], cand[2]>>
    IN  IF centre = <<40, 30>> THEN "Vayne"
        ELSE IF centre \in {<<44, 30>>, <<5, 30>>} THEN "Poppy"
        ELSE "Nasus"

HasMarker(c, cands) == \E i \in 1..Len(cands) : MarkerOf(cands[i]) = c

\* every circle found is the marker of a roster champion of its side, one each
MarkersFromRosters ==
    /\ Disjoint
    /\ \A i \in 1..Len(blue_classified) :
          MarkerOf(blue_classified[i]) \in SeqRange(ally_champions)
    /\ \A i \in 1..Len(red_classified) :
          MarkerOf(red_classified[i]) \in SeqRange(enemy_champions)
    /\ \A i, j \in 1..Len(blue_classified) :
          i # j => MarkerOf(blue_classified[i]) # MarkerOf(blue_classified[j])

\* C5: at the default threshold a roster champion with no marker on the
\* minimap is 'Not visible', also when a champion of its side has a marker.
C5_NoMarkerNotVisible ==
    (pc = "returned" /\ threshold = DefaultThreshold /\ MarkersFromRosters) =>
        \A c \in Roster :
            ~(HasMarker(c, blue_classified) \/ HasMarker(c, red_classified))
                => positions_str[c] = NotVisible

\* two candidates of a list that overlap, not near-totally
OverlappingPair(cands) ==
    /\ Len(cands) = 2
    /\ compute_circle_overlap(cands[1], cands[2]) > 0
    /\ compute_circle_overlap(cands[1], cands[2]) <= OverlapNearTotal

\* C6 as stated: two ally champions whose markers overlap with ratio at most
\* 0.8 are never both given the same candidate circle.
C6_DistinctPositions ==
    (pc = "returned" /\ OverlappingPair(blue_classified) /\ MarkersFromRosters
        /\ Len(ally_champions) = 2) =>
        LET a == ally_champions[1]
            b == ally_champions[2]
        IN  (a \in DOMAIN positions_xy /\ b \in DOMAIN positions_xy)
                => positions_xy[a] # positions_xy[b]

\* C6: with two overlapping candidates (ratio at most 0.8) both stay in the
\* list, and a champion gets the centre of the earliest candidate of its own
\* highest score above the threshold, whatever the other champion was given.
C6_OwnBestCandidate ==
    (CallReturned /\ OverlappingPair(SideCands(cur.side))
        /\ IconUsable(cur.icon, icon_size)) =>
        LET c == cur.champ
            cands == SideCands(cur.side)
            best == BestIdx(cands, cur.scores)
        IN  IF best = {}
            THEN positions_str[c] = NotVisible
            ELSE \A i \in best :
                    /\ c \in DOMAIN positions_xy
                    /\ positions_xy[c] = StoredCentre(cands[i])
                    /\ Located(positions_str[c])

\* two champions of overlapping markers given the same candidate
C6_Witness ==
    /\ pc = "returned"
    /\ OverlappingPair(blue_classified)
    /\ MarkersFromRosters
    /\ Len(ally_champions) = 2
    /\ ally_champions[1] \in DOMAIN positions_xy
    /\ ally_champions[2] \in DOMAIN positions_xy
    /\ positions_xy[ally_champions[1]] = positions_xy[ally_champions[2]]

EmptySt == [str |-> EmptyDict, xy |-> EmptyDict, raised |-> FALSE]

\* an ally call on an image without ally-coloured pixels
C7_AllyStep ==
    (pc = "ally" /\ ~minimap.blue) =>
        /\ pc' # "raised"
        /\ positions_str'[cur'.champ] = NotVisible
        /\ positions_xy' = positions_xy

\* an enemy call gives the champion what the call gives on the red candidates
\* alone, with no ally processed before it
C7_EnemyStep ==
    pc = "enemy" =>
        LET c == cur'.champ
        IN  /\ Len(cur'.scores) = Len(red_classified)
            /\ \A alone \in {process_champion(c, red_classified, cur'.icon, cur'.scores,
                                 threshold, icon_size, minimap.shape, uint16_wraps, EmptySt)} :
                   /\ alone.raised = (pc' = "raised")
                   /\ ~alone.raised =>
                         /\ positions_str'[c] = alone.str[c]
                         /\ c \in DOMAIN alone.xy =>
                               (c \in DOMAIN positions_xy' /\ positions_xy'[c] = alone.xy[c])
                         /\ c \notin DOMAIN alone.xy =>
                               (c \in DOMAIN positions_xy' <=> c \in DOMAIN positions_xy)

C7_Return ==
    (pc' = "returned" /\ ~minimap.blue /\ Disjoint) =>
        \A i \in 1..Len(ally_champions) :
            /\ positions_str'[ally_champions[i]] = NotVisible
            /\ ally_champions[i] \notin DOMAIN positions_xy'

\* C7: on a minimap with no ally-coloured pixel every ally champion is 'Not
\* visible', and an enemy champion's result is fixed by the red candidates, its
\* icon and its scores, whatever the ally roster and the ally candidates are.
C7_SidesIndependent == [][C7_AllyStep /\ C7_EnemyStep /\ C7_Return]_vars

\* a return with allies unseen and an enemy located, no ally pixel on the image
C7_Witness ==
    /\ pc = "returned"
    /\ ~minimap.blue
    /\ Disjoint
    /\ Len(ally_champions) = 2
    /\ \A i \in 1..2 : positions_str[ally_champions[i]] = NotVisible
    /\ \E e \in SeqRange(enemy_champions) : e \in DOMAIN positions_xy

\* (512 * x / W, 512 * y / H) for a centre (x, y) of an image W wide, H high
ScaledCentre(cand, shape) ==
    <<RoundDiv(512 * cand[1] * CoordScale, shape[2]),
      RoundDiv(512 * cand[2] * CoordScale, shape[1])>>

\* C8: the position stored for an accepted candidate at pixel (x, y) of a
\* W x H image is (512 * x / W, 512 * y / H), square image or not.
C8_NormalizedByWidthAndHeight ==
    (CallReturned /\ IconUsable(cur.icon, icon_size)) =>
        \A i \in BestIdx(SideCands(cur.side), cur.scores) :
            /\ cur.champ \in DOMAIN positions_xy
            /\ positions_xy[cur.champ] = ScaledCentre(SideCands(cur.side)[i], minimap.shape)

\* the deviation allowed to a round trip: 1/256 of a pixel
RoundTripTolerance == CoordScale \div 256

\* C9: denormalize(normalize(P, S), S) gives P and normalize(denormalize(Q, S), S)
\* gives Q, up to rounding, for every size S.
C9_RoundTrip ==
    map_from # "none" =>
        /\ Abs(map_result[1] - map_point[1]) <= RoundTripTolerance
        /\ Abs(map_result[2] - map_point[2]) <= RoundTripTolerance

\* a round trip from the reference frame through a non-square minimap
C9_Witness ==
    /\ map_from = "reference"
    /\ map_size[1] # map_size[2]
    /\ map_point[1] > 0
    /\ map_point[2] > map_point[1]

\* C10: compute_circle_overlap is 0 when the centre distance is at least the
\* sum of the radii, and 1.0 for two identical circles.
C10_OverlapExtremes ==
    overlap # -1 =>
        /\ SqDistance(circle1, circle2) >= (circle1[3] + circle2[3]) * (circle1[3] + circle2[3])
              => overlap = 0
        /\ circle1 = circle2 => overlap = FP

\* two circles that touch in one point
C10_Witness ==
    /\ overlap = 0
    /\ circle1[3] # circle2[3]
    /\ SqDistance(circle1, circle2) = (circle1[3] + circle2[3]) * (circle1[3] + circle2[3])

\* C11: the distance from a present champion to itself is 0, and the distance
\* with reference A and target B is the one with reference B and target A.
C11_DistanceSymmetric ==
    distances.called =>
        \A t \in DOMAIN distances.entries :
            (~Absent(dist_positions, dist_reference) /\ ~Absent(dist_positions, t)) =>
                /\ ~distances.entries[t].none
                /\ t = dist_reference => distances.entries[t].value = 0
                /\ distances.entries[t] =
                      calculate_champion_distances(dist_positions, t,
                                                   <<dist_reference>>)[dist_reference]

\* a call that measures the reference itself and another present champion
C11_Witness ==
    /\ distances.called
    /\ dist_reference \in DOMAIN distances.entries
    /\ distances.entries[dist_reference] = Some(0)
    /\ \E t \in DOMAIN distances.entries :
          ~distances.entries[t].none /\ distances.entries[t].value > 0

\* the state a call of calculate_champion_distances leaves
C12_Call ==
    distances'.called =>
        /\ DOMAIN distances'.entries = {dist_targets[i] : i \in 1..Len(dist_targets)}
        /\ \A t \in DOMAIN distances'.entries :
              /\ distances'.entries[t].none <=>
                    (Absent(dist_positions, dist_reference) \/ Absent(dist_positions, t))
              /\ distances'.entries[t].value >= 0
        /\ dist_positions' = dist_positions

\* C12: one entry per listed target; None exactly when the reference or the
\* target is absent (key missing or value None), a non-negative number
\* otherwise; positions_xy is left as it was.
C12_OneEntryPerTarget == [][C12_Call]_vars

\* a call with an absent reference and listed targets
C12_Witness ==
    /\ distances.called
    /\ Absent(dist_positions, dist_reference)
    /\ Len(dist_targets) = 2
    /\ dist_targets[1] # dist_targets[2]
    /\ ~Absent(dist_positions, dist_targets[1])
    /\ dist_targets[2] \notin DOMAIN dist_positions

\* ------------------------------------------------------------------------
\* the point lies strictly within the polygon: off its border, inside its extent
StrictlyInside(point, poly) ==
    /\ poly[1] * CoordScale < point[1] /\ point[1] < poly[3] * CoordScale
    /\ poly[2] * CoordScale < point[2] /\ point[2] < poly[4] * CoordScale

Containing == {i \in 1..Len(desc_regions) : StrictlyInside(desc_point, desc_regions[i].polygon)}

\* how often a label occurs in a sequence of labels
Occurrences(labels, l) == Cardinality({k \in 1..Len(labels) : labels[k] = l})

\* the labels name exactly the polygons of the index set, one mention each
NamesExactly(labels, indexes) ==
    /\ Len(labels) = Cardinality(indexes)
    /\ \A i \in 1..Len(desc_regions) :
          Occurrences(labels, desc_regions[i].label) =
             Cardinality({j \in indexes : desc_regions[j].label = desc_regions[i].label})

\* C13: the description begins with 'inside' exactly when the point lies
\* strictly within at least one polygon; it then names the labels of exactly
\* the containing polygons, and for one containing polygon it is
\* 'inside <that label>'.
C13_InsideExactlyContaining ==
    description.called =>
        /\ (description.text[1] = "inside") <=> (Containing # {})
        /\ Containing # {} =>
              /\ NamesExactly(description.result.labels, Containing)
              /\ \A k \in 1..Len(description.result.labels) :
                    \E m \in 2..Len(description.text) :
                        description.text[m] = description.result.labels[k]
              /\ \A i \in Containing :
                    Containing = {i} =>
                        description.text = <<"inside", desc_regions[i].label>>

\* a point strictly within two of three polygons, named in the order of the list
C13_Witness ==
    /\ description.called
    /\ Len(desc_regions) = 3
    /\ Cardinality(Containing) = 2
    /\ \E i, j \in Containing :
          /\ i < j
          /\ description.text = <<"inside", desc_regions[i].label, "and", desc_regions[j].label>>

\* C14: for a point within no polygon the description names the closest
\* polygons: no polygon left out is strictly closer than a named one; the
\* text is 'near <label>' for one named polygon and 'between ... and <label>'
\* for more than one.
C14_NamesClosest ==
    (description.called /\ Containing = {}) =>
        \E labels \in {description.result.labels} :
            /\ \E named \in SUBSET (1..Len(desc_regions)) :
                  /\ NamesExactly(labels, named)
                  /\ \A i \in named : \A j \in (1..Len(desc_regions)) \ named :
                        PolyDistance2(desc_point[1], desc_point[2], desc_regions[j].polygon)
                          >= PolyDistance2(desc_point[1], desc_point[2], desc_regions[i].polygon)
            /\ Len(labels) = 1 => description.text = <<"near", labels[1]>>
            /\ Len(labels) > 1 =>
                  /\ description.text[1] = "between"
                  /\ description.text[Len(description.text) - 1] = "and"
                  /\ description.text[Len(description.text)] = labels[Len(labels)]

\* a point outside three polygons of which two are named, the third one
\* being strictly farther away
C14_Witness ==
    /\ description.called
    /\ Containing = {}
    /\ Len(desc_regions) = 3
    /\ Len(description.result.labels) = 2
    /\ description.text[1] = "between"
    /\ \E j \in 1..3 : \A i \in (1..3) \ {j} :
          PolyDistance2(desc_point[1], desc_point[2], desc_regions[j].polygon)
            > PolyDistance2(desc_point[1], desc_point[2], desc_regions[i].polygon)

\* ------------------------------------------------------------------------
\* the roster loops of a call that runs with no other call in the process
RECURSIVE AloneLoop(_, _, _, _, _, _)
AloneLoop(input, icons, wraps, side, i, st) ==
    IF side = "returned" THEN st
    ELSE LET champ == IF side = "ally" THEN input.ally[i] ELSE input.enemy[i]
             size  == get_minimap_icon_size(input.frame.shape)
             found == compute_hough_candidates(
                         IF side = "ally" THEN input.frame.blue ELSE input.frame.red, wraps)
             cands == classify_overlapping_circles(found)
             after == process_champion(champ, cands, icons[champ],
                         FrameScores(input.frame, champ, cands, icons[champ], size, wraps),
                         input.threshold, size, input.frame.shape, wraps, st)
             next  == NextChampion(input, side, i)
         IN  IF after.raised THEN after
             ELSE AloneLoop(input, icons, wraps, next[1], next[2], after)

\* what the call gives when it is the only call of the process
detect_alone(input, icons, wraps) ==
    IF ~input.frame.readable THEN [NewMaps EXCEPT !.raised = TRUE]
    ELSE LET first == NextChampion(input, "ally", 0)
         IN  AloneLoop(input, icons, wraps, first[1], first[2], NewMaps)

\* the call ended as it ends alone
AsAlone(c) ==
    \A alone \in {detect_alone(call_input[c], icons_dir, numpy_wraps)} :
        IF alone.raised
        THEN call_pc[c] = "raised"
        ELSE /\ call_pc[c] = "returned"
             /\ call_result[c] = [returned |-> TRUE, str |-> alone.str, xy |-> alone.xy]

\* a step of the process leaves the data of every call that took no step
OwnDataOnly ==
    \A d \in Calls :
        (call_pc'[d] = call_pc[d] /\ call_idx'[d] = call_idx[d]) =>
            /\ call_positions'[d] = call_positions[d]
            /\ call_candidates'[d] = call_candidates[d]
            /\ call_result'[d] = call_result[d]

\* C15: a call that ran while another call was in progress returns the two
\* maps it returns alone, and no step of a call touches the result maps,
\* the candidate lists or the returned maps of another call.
C15_ConcurrentCallsIsolated ==
    /\ [](\A c \in Calls : (Ended(c) /\ call_history[c] = "overlap") => AsAlone(c))
    /\ [][OwnDataOnly]_vars

\* two calls on different arguments that overlapped and both found a champion
C15_Witness ==
    /\ \A c \in Calls : call_history[c] = "overlap" /\ call_result[c].returned
    /\ call_input[1] # call_input[2]
    /\ DOMAIN call_result[1].xy # {}
    /\ DOMAIN call_result[2].xy # {}
    /\ call_result[1].str # call_result[2].str

\* C16: a call that starts after earlier calls ended returns the maps given
\* by its own arguments, the icon files and the annotation file, whatever the
\* earlier calls were; two calls with equal arguments return equal maps.
C16_Stateless ==
    /\ \A c \in Calls : (Ended(c) /\ call_history[c] = "after") => AsAlone(c)
    /\ \A c, d \in Calls :
          (Ended(c) /\ Ended(d) /\ call_input[c] = call_input[d]) =>
              /\ call_pc[c] = call_pc[d]
              /\ call_result[c] = call_result[d]

\* a call that found a champion after an earlier call on other arguments had
\* returned other maps
C16_Witness ==
    \E c, d \in Calls :
        /\ call_history[c] = "after" /\ call_history[d] = "first"
        /\ call_result[c].returned /\ call_result[d].returned
        /\ call_input[c] # call_input[d]
        /\ DOMAIN call_result[c].xy # {}
        /\ DOMAIN call_result[d].str \ DOMAIN call_result[c].str # {}

\* C17: the annotation file is parsed once in the process, and no call of
\* detect_champion_positions parses it again.
C17_AnnotationsParsedOnce == annotation_parses <= 1

\* C18: the icon file of a champion is read at most once in the process (the
\* minimap files all give the same icon size).
C18_IconReadOnce == \A ch \in Champions : icon_reads[ch] <= 1

\* ------------------------------------------------------------------------
\* the overlap ratio of candidates a and b of the list
Ratio(a, b) == compute_circle_overlap(cls_candidates[a], cls_candidates[b])

\* the members of the pair the rule of the claim allows to demote: the lower
\* score for a ratio above 0.8, the larger radius otherwise, either member
\* where the two are equal in that respect
Losers(a, b) ==
    IF Ratio(a, b) <= OverlapSignificant THEN {}
    ELSE IF Ratio(a, b) > OverlapNearTotal
    THEN IF cls_candidates[a][4] < cls_candidates[b][4] THEN {a}
         ELSE IF cls_candidates[b][4] < cls_candidates[a][4] THEN {b} ELSE {a, b}
    ELSE IF cls_candidates[a][3] > cls_candidates[b][3] THEN {a}
         ELSE IF cls_candidates[b][3] > cls_candidates[a][3] THEN {b} ELSE {a, b}

\* the pass of the loop over the pair (cls_i, cls_j) demotes one allowed
\* member of the pair and no other candidate, or nobody for a ratio <= 0.15
PairDemotesOne ==
    cls_pc = "pairs" =>
        IF Losers(cls_i, cls_j) = {}
        THEN is_foreground' = is_foreground
        ELSE \E k \in Losers(cls_i, cls_j) :
                is_foreground' = [is_foreground EXCEPT ![k] = FALSE]

\* the returned flag of a candidate no pair could demote is True
UndemotedStaysForeground ==
    cls_pc = "done" =>
        \A k \in 1..Len(cls_candidates) :
            (\A m \in 1..Len(cls_candidates) : m # k => k \notin Losers(k, m))
                => cls_result[k][5]

\* C19: every pair with overlap ratio above 0.15 demotes exactly one member,
\* the lower initial score for a ratio above 0.8 and the larger radius
\* otherwise; a pair with ratio at most 0.15 demotes nobody, and a candidate
\* no pair demotes stays foreground.
C19_PairRule == [][PairDemotesOne]_vars /\ []UndemotedStaysForeground

\* a list whose pairs take the score branch, the radius branch and no branch
C19_Witness ==
    /\ cls_pc = "done"
    /\ Len(cls_candidates) = 3
    /\ \E a, b, c \in 1..3 :
          /\ Ratio(a, b) > OverlapNearTotal /\ cls_candidates[a][4] < cls_candidates[b][4]
          /\ ~cls_result[a][5] /\ cls_result[b][5]
          /\ Ratio(b, c) = 0
          /\ cls_result[c][5]

\* C20: every candidate returned as background overlaps, with ratio above
\* 0.15, a candidate returned as foreground; a non-empty list keeps a
\* foreground candidate.
C20_BackgroundUnderForeground ==
    cls_pc = "done" =>
        /\ \A k \in 1..Len(cls_result) :
              ~cls_result[k][5] =>
                  \E m \in 1..Len(cls_result) :
                      m # k /\ cls_result[m][5] /\ Ratio(k, m) > OverlapSignificant
        /\ cls_candidates # <<>> => \E k \in 1..Len(cls_result) : cls_result[k][5]

\* ------------------------------------------------------------------------
\* the mask the claim describes for returned candidate k: its own circle,
\* less the footprint of every foreground circle it overlaps
MaskOutsideForeground(k) ==
    LET me   == cls_result[k]
        full == Disk(MaskSize[1] \div 2, MaskSize[2] \div 2, me[3], MaskSize)
        hiding == {m \in 1..Len(cls_result) :
                      /\ m # k
                      /\ cls_result[m][5]
                      /\ SqDistance(me, cls_result[m])
                            < (me[3] + cls_result[m][3]) * (me[3] + cls_result[m][3])}
    IN  IF me[5] THEN full
        ELSE full \ UNION {Disk(cls_result[m][1] - me[1] + MaskSize[1] \div 2,
                                cls_result[m][2] - me[2] + MaskSize[2] \div 2,
                                cls_result[m][3] + HALO_SIZE + 2, MaskSize) : m \in hiding}

\* C21: the mask of a background candidate is its own circle less the
\* footprint of every overlapping foreground circle, background circles not
\* being subtracted; the mask of a foreground candidate is its full circle.
C21_MaskOutsideForeground ==
    cls_pc = "masked" =>
        \A k \in 1..Len(cls_result) : cls_masks[k] = MaskOutsideForeground(k)

\* ------------------------------------------------------------------------
\* C22: a colour channel whose histogram comparison is NaN enters the colour
\* score with similarity 0, so that no defined comparison result in its place
\* gives a lower combined similarity.
C22_UndefinedChannelIsWorst ==
    sim_output.scored =>
        /\ isnan(sim_input.h) => sim_output.h = 0
        /\ isnan(sim_input.s) => sim_output.s = 0
        /\ isnan(sim_input.v) => sim_output.v = 0
        /\ \A c \in Comparisons \ {NaN} :
              /\ isnan(sim_input.h) =>
                    sim_output.combined <=
                        combined_similarity(sim_input.hog, c, sim_input.s, sim_input.v)
              /\ isnan(sim_input.s) =>
                    sim_output.combined <=
                        combined_similarity(sim_input.hog, sim_input.h, c, sim_input.v)
              /\ isnan(sim_input.v) =>
                    sim_output.combined <=
                        combined_similarity(sim_input.hog, sim_input.h, sim_input.s, c)

\* the highest combined score among the scored candidates
TopScore(cands, scores) ==
    CHOOSE t \in {scores[i] : i \in ScoredIdx(cands)} :
        \A i \in ScoredIdx(cands) : scores[i] <= t

\* the earliest scored candidate of that score
EarliestTop(cands, scores) ==
    CHOOSE i \in ScoredIdx(cands) :
        /\ scores[i] = TopScore(cands, scores)
        /\ \A j \in ScoredIdx(cands) : scores[j] = TopScore(cands, scores) => i <= j

\* C23: a champion with a usable icon is reported at the centre of the
\* scored candidate of its side with the highest combined score, the earliest
\* one on equal scores, if that score exceeds the threshold; with no scored
\* candidate or a highest score at or below the threshold it is 'Not visible'.
C23_HighestScoreWins ==
    (CallReturned /\ IconUsable(cur.icon, icon_size)) =>
        LET c == cur.champ
            cands == SideCands(cur.side)
        IN  IF ScoredIdx(cands) = {} \/ TopScore(cands, cur.scores) <= threshold
            THEN positions_str[c] = NotVisible
            ELSE /\ c \in DOMAIN positions_xy
                 /\ positions_xy[c] = StoredCentre(cands[EarliestTop(cands, cur.scores)])
                 /\ Located(positions_str[c])

\* two scored candidates of equal score above the threshold, the first reported
C23_Witness ==
    /\ CallReturned
    /\ IconUsable(cur.icon, icon_size)
    /\ Len(SideCands(cur.side)) = 2
    /\ ScoredIdx(SideCands(cur.side)) = {1, 2}
    /\ cur.scores[1] = cur.scores[2]
    /\ cur.scores[1] > threshold
    /\ positions_xy[cur.champ] = StoredCentre(SideCands(cur.side)[1])
    /\ StoredCentre(SideCands(cur.side)[1]) # StoredCentre(SideCands(cur.side)[2])

\* the found circles in the order of the candidates
FoundSorted == SortByRadius(hough_circles)

\* C24: every candidate has the centre of a found circle, the initial score
\* 1.0 and the radius max(r - 3, 1) of the found radius r: at least 1 and at
\* most r, in both NumPy builds.
C24_RadiusShrunk ==
    hough_pc = "done" =>
        /\ Len(hough_candidates) = Len(hough_circles)
        /\ \A i \in 1..Len(hough_candidates) :
              /\ hough_candidates[i][1] = FoundSorted[i][1]
              /\ hough_candidates[i][2] = FoundSorted[i][2]
              /\ hough_candidates[i][4] = ScoreInit
              /\ hough_candidates[i][3] = Max(FoundSorted[i][3] - HALO_SIZE, 1)
              /\ hough_candidates[i][3] >= 1
              /\ hough_candidates[i][3] <= FoundSorted[i][3]

\* the smallest radius HoughCircles can report, on the build that wraps
C24_Witness ==
    /\ hough_pc = "done"
    /\ hough_wraps
    /\ Len(hough_candidates) = 2
    /\ FoundSorted[2][3] = HoughRange(hough_shape).minRadius
    /\ hough_candidates[2][3] = 1
    /\ hough_candidates[1][3] > 1

\* C25: in the list classify_overlapping_circles returns, no two candidates
\* flagged foreground overlap each other with a ratio above 0.15.
C25_ForegroundApart ==
    cls_pc \in {"done", "masked"} =>
        \A a, b \in 1..Len(cls_result) :
            (a # b /\ cls_result[a][5] /\ cls_result[b][5])
                => compute_circle_overlap(<<cls_result[a][1], cls_result[a][2], cls_result[a][3]>>,
                                          <<cls_result[b][1], cls_result[b][2], cls_result[b][3]>>)
                       <= OverlapSignificant

\* a chain of three candidates returned with its two ends foreground and
\* the middle one, which overlaps both, background
C25_Witness ==
    /\ cls_pc = "done"
    /\ Len(cls_result) = 3
    /\ \E a, b, c \in 1..3 :
          /\ a # b
          /\ cls_result[a][5] /\ cls_result[b][5] /\ ~cls_result[c][5]
          /\ Ratio(a, c) > OverlapSignificant
          /\ Ratio(b, c) > OverlapSignificant
          /\ Ratio(a, b) <= OverlapSignificant

\* C26: after a return with disjoint rosters a champion has an entry in
\* positions_xy exactly if its positions_str entry is not 'Not visible', and
\* positions_xy has no key outside the rosters.
C26_CoordinatesIffVisible ==
    (pc = "returned" /\ Disjoint) =>
        /\ DOMAIN positions_xy \subseteq Roster
        /\ \A c \in Roster :
              c \in DOMAIN positions_xy <=> positions_str[c] # NotVisible

\* a return with disjoint rosters, a located ally with coordinates and an
\* enemy that is 'Not visible' and has none
C26_Witness ==
    /\ pc = "returned"
    /\ Disjoint
    /\ ally_champions # <<>>
    /\ enemy_champions # <<>>
    /\ ally_champions[1] \in DOMAIN positions_xy
    /\ Located(positions_str[ally_champions[1]])
    /\ enemy_champions[1] \notin DOMAIN positions_xy
    /\ positions_str[enemy_champions[1]] = NotVisible

\* the window of a candidate, of side icon_size + pad around its centre, lies
\* inside the image: x >= 0, y >= 0, x + w < width, y + h < height
WindowInside(cand) ==
    LET pad == Max(4, icon_size[1] \div 6)
        w == icon_size[1] + pad
        h == icon_size[2] + pad
        x == cand[1] - (icon_size[1] \div 2 + pad \div 2)
        y == cand[2] - (icon_size[2] \div 2 + pad \div 2)
    IN  x >= 0 /\ y >= 0 /\ x + w < minimap.shape[2] /\ y + h < minimap.shape[1]

\* C27: process_champion skips every candidate whose window does not lie
\* inside the image, also one whose centre is smaller than half the window: the
\* call goes on, and the champion is never reported at such a candidate.
C27_OutsideWindowSkipped ==
    (cur.side # "" /\ IconUsable(cur.icon, icon_size)) =>
        /\ pc # "raised"
        /\ \A i \in 1..Len(SideCands(cur.side)) :
              (/\ ~WindowInside(SideCands(cur.side)[i])
               /\ \A j \in 1..Len(SideCands(cur.side)) :
                     WindowInside(SideCands(cur.side)[j]) =>
                         StoredCentre(SideCands(cur.side)[j]) # StoredCentre(SideCands(cur.side)[i]))
                  => (cur.champ \in DOMAIN positions_xy =>
                         positions_xy[cur.champ] # StoredCentre(SideCands(cur.side)[i]))

\* the labels are those of distinct polygons of the list, in ascending order
\* of their distance to the point
AscendingLabels(labels) ==
    \E f \in [1..Len(labels) -> 1..Len(desc_regions)] :
        /\ \A k, m \in 1..Len(labels) : k # m => f[k] # f[m]
        /\ \A k \in 1..Len(labels) : desc_regions[f[k]].label = labels[k]
        /\ \A k, m \in 1..Len(labels) :
              k < m => PolyDistance2(desc_point[1], desc_point[2], desc_regions[f[k]].polygon)
                         <= PolyDistance2(desc_point[1], desc_point[2], desc_regions[f[m]].polygon)

\* C28: with a non-empty region list and the default n_closest = 3 the call
\* returns a description string and does not raise; for a point within no
\* polygon the string names min(3, number of regions) labels, in ascending
\* order of distance.
C28_AlwaysDescribes ==
    (description.called /\ desc_regions # <<>> /\ desc_n = 3) =>
        /\ description.result # IndexError
        /\ description.result.kind \in {"inside", "near", "between"}
        /\ Len(description.text) >= 2
        /\ Containing = {} =>
              /\ Len(description.result.labels) = Min(3, Len(desc_regions))
              /\ AscendingLabels(description.result.labels)

\* a point within none of four polygons at different distances: three named
C28_Witness ==
    /\ description.called
    /\ desc_n = 3
    /\ Len(desc_regions) = 4
    /\ Containing = {}
    /\ Len(description.result.labels) = 3
    /\ description.text[1] = "between"
    /\ \A i, j \in 1..4 :
          i # j => PolyDistance2(desc_point[1], desc_point[2], desc_regions[i].polygon)
                     # PolyDistance2(desc_point[1], desc_point[2], desc_regions[j].polygon)

\* the events posted for trigger t
EventsOf(t) == {k \in 1..Len(shot_events) : shot_events[k].trigger = t}

\* C29: a finished trigger has posted exactly one event: ScreenshotReady with
\* the path of the saved minimap and the agent name if the screenshot was
\* captured and its crop saved, ScreenshotError if the capture or the crop
\* failed.
C29_OneEventPerTrigger ==
    \A t \in Triggers :
        shot_pc[t] = "done" /\ shot_agent[t] # "" =>
            /\ Cardinality(EventsOf(t)) = 1
            /\ \A k \in EventsOf(t) :
                  IF shot_saved[t].kind = "path"
                  THEN /\ shot_events[k].type = "ScreenshotReady"
                       /\ shot_events[k].image_path = shot_saved[t].path
                       /\ shot_events[k].agent_name = shot_agent[t]
                  ELSE shot_events[k].type = "ScreenshotError"

\* C30: once stop_speaking has returned the queue is empty, and no chunk of
\* a text put on the queue before the stop has started to play after the
\* return, however the worker thread was interleaved with the stop.
C30_StopSilences ==
    stop_pc = "returned" =>
        /\ speech_queue = <<>>
        /\ \A k \in 1..Len(played) : ~played[k].after_stop

====
